---------------------------- MODULE Spec2Model ----------------------------
(***************************************************************************)
(* The alarm dispatch engine of KAlarm (src/kalarmapp.cpp): the action     *)
(* queue and its single drain (processQueue), the quit logic (quitIf),     *)
(* the fatal-error state, the dispatch of one event (handleEvent), the     *)
(* rescheduler/canceller, the executor (execAlarm) and the command         *)
(* tracker (doShellCommand / slotCommandExited).                           *)
(*                                                                         *)
(* Times are seconds.  KAEvent, KAAlarm, the calendar, the notifier and    *)
(* MessageWin are collaborators whose code is outside src/; they are       *)
(* modelled from the specification's data model.                           *)
(***************************************************************************)
EXTENDS Integers, Sequences, FiniteSets, TLC

VARIABLES
    mInitialised,       \* KAlarmApp::mInitialised
    mProcessingQueue,   \* KAlarmApp::mProcessingQueue
    mPendingQuit,       \* KAlarmApp::mPendingQuit
    mPendingQuitCode,   \* KAlarmApp::mPendingQuitCode
    mFatalError,        \* KAlarmApp::mFatalError (0..3)
    mFatalMessage,      \* KAlarmApp::mFatalMessage
    mActiveCount,       \* KAlarmApp::mActiveCount
    mDcopQueue,         \* KAlarmApp::mDcopQueue: sequence of DcopQEntry
    mCommandProcesses,  \* KAlarmApp::mCommandProcesses: sequence of ProcData
    mTrayWindow,        \* KAlarmApp::mTrayWindow exists (and is housed in the tray)
    pqTimers,           \* pending QTimer::singleShot(0, processQueue) calls
    fatalTimers,        \* pending QTimer::singleShot(.., quitFatal) calls
    stack,              \* the handlers in progress, innermost last
    calendar,           \* AlarmCalendar::resources(): event id -> event or NoEvent
    archived,           \* the archived events (copies)
    wins,               \* the MessageWin instances
    mainWindowOpen,     \* a main window that keeps the application running
    files,              \* temporary script files that exist
    logs,               \* logging sub-processes not yet told to terminate
    now,                \* KDateTime::currentUtcDateTime()
    exited,             \* NotExited, or the code passed to exit()
    invocations,        \* history: the number of command lines received
    enqLog,             \* history: stamps of the entries appended to mDcopQueue
    handledLog,         \* history: stamps of the entries processQueue handled
    overlap,            \* history: a calendar operation began while another was active
    lastCall            \* history: the last handler invocation and its effects

vars == << mInitialised, mProcessingQueue, mPendingQuit, mPendingQuitCode,
           mFatalError, mFatalMessage, mActiveCount, mDcopQueue, mCommandProcesses, mTrayWindow,
           pqTimers, fatalTimers, stack, calendar, archived, wins, mainWindowOpen,
           files, logs, now, exited, invocations, enqLog, handledLog, overlap,
           lastCall >>

---------------------------------------------------------------------------
(* Bounds of the model *)

\* entries appended to the action queue in one behaviour
MaxEnqueue == 2
\* command-execution records outstanding at once
MaxProcs == 1
\* handlers in progress at once (one nested in the event loop of another)
MaxDepth == 2
MaxInvocations == 1

---------------------------------------------------------------------------
(* Program constants *)

\* static const int LATENESS_LEEWAY = 5
LATENESS_LEEWAY == 5
\* Daemon::maxTimeSinceCheck(): the daemon's check interval, in seconds
DaemonInterval == 60
\* minutes in a day: alarm.lateCancel() / 1440
MinutesPerDay == 1440
\* seconds in a day
SecsPerDay == 86400

NotExited == -1
NoEvent   == [id |-> "none"]
Invalid   == -1000000000     \* an invalid DateTime

EVENT_HANDLE  == "HANDLE"
EVENT_TRIGGER == "TRIGGER"
EVENT_CANCEL  == "CANCEL"
EventFunc     == {EVENT_HANDLE, EVENT_TRIGGER, EVENT_CANCEL}

MAIN_ALARM     == "MAIN"
REMINDER_ALARM == "REMINDER"
DEFERRED_ALARM == "DEFERRED"
AT_LOGIN_ALARM == "AT_LOGIN"
\* the order in which firstAlarm()/nextAlarm() enumerate the alarms
AlarmOrder == << MAIN_ALARM, REMINDER_ALARM, DEFERRED_ALARM, AT_LOGIN_ALARM >>
AlarmTypes == {MAIN_ALARM, REMINDER_ALARM, DEFERRED_ALARM, AT_LOGIN_ALARM}

NO_OCCURRENCE            == "NO_OCCURRENCE"
FIRST_OR_ONLY_OCCURRENCE == "FIRST_OR_ONLY_OCCURRENCE"
RECURRENCE_DATE          == "RECURRENCE_DATE"
RECURRENCE_DATE_TIME     == "RECURRENCE_DATE_TIME"
LAST_RECURRENCE          == "LAST_RECURRENCE"

---------------------------------------------------------------------------
(* Lateness policy *)

\* the range of int
IntMax == 2147483647
IntMin == -IntMax - 1

\* the int sum a + b is outside the range of int
AddOverflows(a, b) ==
    \/ (b > 0 /\ a > IntMax - b)
    \/ (b < 0 /\ a < IntMin - b)

\* the int sum a + b as a build with wrapping arithmetic computes it
WrapAdd(a, b) ==
    IF b > 0 /\ a > IntMax - b THEN ((a - IntMax) + (b - 1)) + IntMin
    ELSE IF b < 0 /\ a < IntMin - b THEN ((a - IntMin) + (b + 1)) + IntMax
    ELSE a + b

\* the int product x * 60 is outside the range of int (x >= 0)
Times60Overflows(x) == x > IntMax \div 60

\* x + x, wrapping, n times over: x * 2^n
RECURSIVE WrapDouble(_, _)
WrapDouble(x, n) == IF n = 0 THEN x ELSE WrapDouble(WrapAdd(x, x), n - 1)

\* the int product x * 60 as a build with wrapping arithmetic computes it
WrapTimes60(x) ==
    WrapAdd(WrapAdd(WrapDouble(x, 5), WrapDouble(x, 4)),
            WrapAdd(WrapDouble(x, 3), WrapDouble(x, 2)))

\* the mutant drops the "- 1" of the late-cancel minutes
maxLateness_NoMinusOne(lateCancel) ==
    DaemonInterval + LATENESS_LEEWAY + (IF lateCancel >= 1 THEN lateCancel * 60 ELSE 0)

maxLateness(lateCancel) ==
    LET lc == IF lateCancel >= 1 THEN (lateCancel - 1) * 60 ELSE 0
    IN  DaemonInterval + LATENESS_LEEWAY + lc

---------------------------------------------------------------------------
(* KAEvent / KAAlarm: the event model *)

\* Event::recurs()
recurs(e) == e.recurPeriod > 0

\* Event::repeatCount()
repeatCount(e) == e.repeatCount

\* Event::alarmCount()
alarmCount(e) == Cardinality(e.alarms)

\* the k-th occurrence of the event's recurrence
occurrence(e, k) == e.startDT + k * e.recurPeriod

\* KAAlarm: one alarm instance of an event, as KAEvent::alarm(type) returns it
InvalidAlarm ==
    [valid |-> FALSE, type |-> "INVALID", dt |-> Invalid, lateCancel |-> 0,
     action |-> "NONE", repeatAtLogin |-> FALSE, dateOnly |-> FALSE,
     clockTime |-> FALSE]

alarmOf(e, type) ==
    IF type \notin e.alarms THEN InvalidAlarm
    ELSE [valid |-> TRUE, type |-> type, dt |-> e.dt[type],
          lateCancel |-> IF type = AT_LOGIN_ALARM THEN 0 ELSE e.lateCancel,
          action |-> e.action, repeatAtLogin |-> (type = AT_LOGIN_ALARM),
          dateOnly |-> e.dateOnly, clockTime |-> e.clockTime]

\* position of an alarm type in the enumeration order
RECURSIVE typeIndexFrom(_, _)
typeIndexFrom(type, i) ==
    IF i > Len(AlarmOrder) THEN 0
    ELSE IF AlarmOrder[i] = type THEN i ELSE typeIndexFrom(type, i + 1)

typeIndex(type) == typeIndexFrom(type, 1)

\* the first alarm of the event at or after position i of the order
RECURSIVE alarmFrom(_, _)
alarmFrom(e, i) ==
    IF i > Len(AlarmOrder) THEN InvalidAlarm
    ELSE IF AlarmOrder[i] \in e.alarms THEN alarmOf(e, AlarmOrder[i])
    ELSE alarmFrom(e, i + 1)

\* Event::firstAlarm()
firstAlarm(e) == alarmFrom(e, 1)

\* Event::nextAlarm(previous)
nextAlarm(e, prev) == alarmFrom(e, typeIndex(prev.type) + 1)

\* Event::removeExpiredAlarm(type): the alarm instance of that type is removed
removeExpiredAlarm(e, type) == [e EXCEPT !.alarms = @ \ {type}]

\* Event::setArchive()
setArchive(e) == [e EXCEPT !.mArchive = TRUE]

\* Event::setUpdated()
setUpdated(e) == [e EXCEPT !.updated = TRUE]

\* Event::mainEndRepeatTime()
mainEndRepeatTime(e) == e.dt[MAIN_ALARM] + e.repeatCount * e.repeatInterval

\* the occurrence indexes of the event that are before time t
occsBefore(e, t) == {k \in 0 .. (e.recurCount - 1) : occurrence(e, k) < t}

\* the simple repetitions of occurrence k that are before time t
repsBefore(e, k, t) ==
    {j \in 1 .. e.repeatCount : occurrence(e, k) + j * e.repeatInterval < t}

Max(S) == CHOOSE x \in S : \A y \in S : y <= x
Min(S) == CHOOSE x \in S : \A y \in S : x <= y

\* the recurrence type of occurrence k
occurTypeOf(e, k) ==
    IF k = 0 THEN FIRST_OR_ONLY_OCCURRENCE
    ELSE IF k = e.recurCount - 1 THEN LAST_RECURRENCE
    ELSE IF e.dateOnly THEN RECURRENCE_DATE ELSE RECURRENCE_DATE_TIME

\* Event::previousOccurrence(t, result, includeRepetitions = true): the last
\* occurrence (or simple repetition) before t
previousOccurrence(e, t) ==
    IF occsBefore(e, t) = {} THEN [type |-> NO_OCCURRENCE, repeat |-> FALSE, dt |-> Invalid]
    ELSE LET k == Max(occsBefore(e, t))
             R == repsBefore(e, k, t)
         IN  IF R = {}
             THEN [type |-> occurTypeOf(e, k), repeat |-> FALSE, dt |-> occurrence(e, k)]
             ELSE [type |-> occurTypeOf(e, k), repeat |-> TRUE,
                   dt |-> occurrence(e, k) + Max(R) * e.repeatInterval]

\* the occurrence indexes of the event that are after time t
occsAfter(e, t) == {k \in 0 .. (e.recurCount - 1) : occurrence(e, k) > t}

\* Event::setNextOccurrence(t): advance the main alarm to the first
\* occurrence after t; the pair of the result type and the event
setNextOccurrence(e, t) ==
    IF t < e.dt[MAIN_ALARM]
    THEN [type |-> FIRST_OR_ONLY_OCCURRENCE, event |-> e]
    ELSE IF ~recurs(e) \/ occsAfter(e, t) = {}
    THEN [type |-> NO_OCCURRENCE, event |-> e]
    ELSE LET k == Min(occsAfter(e, t))
         IN  [type  |-> IF k = e.recurCount - 1 THEN LAST_RECURRENCE
                        ELSE IF e.dateOnly THEN RECURRENCE_DATE
                        ELSE RECURRENCE_DATE_TIME,
              event |-> [e EXCEPT !.dt[MAIN_ALARM] = occurrence(e, k)]]


---------------------------------------------------------------------------
(* The collaborators: calendar, notifier, display.  A handler threads a    *)
(* world record w through its calls:                                       *)
(*   cal, arch, wins, procs, logs, files  - the state it reads and changes *)
(*   trace - the sequence of external operations it performed              *)

\* one external operation performed by a handler
Op(op, id, type, flags) == [op |-> op, id |-> id, type |-> type, flags |-> flags]

Log(w, op, id, type, flags) == [w EXCEPT !.trace = Append(@, Op(op, id, type, flags))]

\* the ids the calendar can hold
EventIds == {"e1", "e2"}

\* AlarmCalendar::resources()->event(id)
calEvent(w, id) == IF id \in EventIds THEN w.cal[id] ELSE NoEvent

\* Daemon::eventHandled(id): the acknowledgement to the notifier
eventHandled(w, id) == Log(w, "ack", id, "", {})

\* KAlarm::updateEvent(event, 0): persist the event
updateEvent(w, e) ==
    LET w1 == Log(w, "update", e.id, "", e.alarms)
    IN  IF calEvent(w, e.id) # NoEvent
        THEN [w1 EXCEPT !.cal[e.id] = [e EXCEPT !.updated = FALSE]]
        ELSE w1

\* KAlarm::addArchivedEvent(event): store a copy in the archive
addArchivedEvent(w, e) ==
    [Log(w, "archive", e.id, "", e.alarms) EXCEPT !.arch = @ \cup {e}]

\* the id KAlarm::addArchivedEvent gives the event object it was passed
archivedID(id) == IF id = "e1" THEN "exp-e1" ELSE IF id = "e2" THEN "exp-e2" ELSE id

\* the event object after KAlarm::addArchivedEvent(event)
archivedObject(e) == [e EXCEPT !.id = archivedID(@)]

\* KAEvent::setEventID
setEventID(e, id) == [e EXCEPT !.id = id]

\* KAlarm::deleteEvent(event, archive)
deleteEvent(w, e, archive) ==
    LET w1 == IF archive /\ e.mArchive THEN addArchivedEvent(w, e) ELSE w
        w2 == Log(w1, "delete", e.id, "", {})
    IN  IF e.id \in EventIds THEN [w2 EXCEPT !.cal[e.id] = NoEvent] ELSE w2

\* KAlarm::addEvent(event, ...): insert a new event into the calendar
addEvent(w, e) ==
    LET w1 == Log(w, "add", e.id, "", e.alarms)
    IN  IF e.id \in EventIds THEN [w1 EXCEPT !.cal[e.id] = e] ELSE w1

\* MessageWin::findEvent(id): the display windows of the event
findEvent(w, id) == {x \in w.wins : x.id = id /\ ~x.err}

\* new MessageWin(event, alarm, flags)->show(); dt is the time it displays
showMessageWin(w, e, alarm, reschedule, allowDefer) ==
    [Log(w, "show", e.id, alarm.type,
         (IF reschedule THEN {} ELSE {"NO_RESCHEDULE"})
           \cup (IF allowDefer THEN {} ELSE {"NO_DEFER"}))
       EXCEPT !.wins = (@ \ findEvent(w, e.id))
                         \cup {[id |-> e.id, type |-> alarm.type, dt |-> alarm.dt,
                                hasDefer |-> allowDefer, err |-> FALSE]}]

\* new MessageWin(event, dateTime, errmsgs)->show(): an error window
showErrorWin(w, e, what) ==
    [Log(w, "errwin", e.id, what, {})
       EXCEPT !.wins = @ \cup {[id |-> e.id, type |-> what, dt |-> Invalid,
                                hasDefer |-> FALSE, err |-> TRUE]}]

---------------------------------------------------------------------------
(* Rescheduler / canceller *)

\* the mutant updates the event where the last alarm was removed
cancelAlarm_NoDelete(w, event, alarmType, updateCalAndDisplay) ==
    LET w1 == IF alarmType = MAIN_ALARM /\ ~event.displaying /\ event.mArchive
              THEN addArchivedEvent(w, event) ELSE w
        e1 == removeExpiredAlarm(event, alarmType)
    IN  [w |-> updateEvent(w1, e1), event |-> e1]

\* the mutant takes the archived copy after the alarm was removed
cancelAlarm_ArchiveAfter(w, event, alarmType, updateCalAndDisplay) ==
    LET e1 == removeExpiredAlarm(event, alarmType)
        w1 == IF alarmType = MAIN_ALARM /\ ~event.displaying /\ event.mArchive
              THEN addArchivedEvent(w, e1) ELSE w
    IN  IF alarmCount(e1) = 0
        THEN [w |-> deleteEvent(w1, e1, FALSE), event |-> e1]
        ELSE IF updateCalAndDisplay
        THEN [w |-> updateEvent(w1, e1), event |-> e1]
        ELSE [w |-> w1, event |-> e1]

\* KAlarmApp::cancelAlarm; the event object comes back from
\* KAlarm::addArchivedEvent with the id of the archived copy, and is given
\* its own id again
cancelAlarm(w, event, alarmType, updateCalAndDisplay) ==
    LET toArchive == alarmType = MAIN_ALARM /\ ~event.displaying /\ event.mArchive
        w1 == IF toArchive THEN addArchivedEvent(w, event) ELSE w
        e0 == IF toArchive THEN setEventID(archivedObject(event), event.id) ELSE event
        e1 == removeExpiredAlarm(e0, alarmType)
    IN  IF alarmCount(e1) = 0
        THEN [w |-> deleteEvent(w1, e1, FALSE), event |-> e1]
        ELSE IF updateCalAndDisplay
        THEN [w |-> updateEvent(w1, e1), event |-> e1]
        ELSE [w |-> w1, event |-> e1]

\* the outcome of the switch of rescheduleAlarm: the world and the event so
\* far, and what is left to do at its end
Rescheduled(c, update, updateDisplay) ==
    [w |-> c.w, event |-> c.event, update |-> update, updateDisplay |-> updateDisplay]

\* the switch on the result nx of setNextOccurrence
rescheduleNext(w, nx, alarm, updateCalAndDisplay) ==
    IF nx.type = NO_OCCURRENCE
    THEN Rescheduled(cancelAlarm(w, nx.event, alarm.type, updateCalAndDisplay),
                     FALSE, FALSE)
    ELSE IF nx.type \in {RECURRENCE_DATE, RECURRENCE_DATE_TIME, LAST_RECURRENCE}
    THEN IF updateCalAndDisplay
         THEN Rescheduled([w |-> w, event |-> nx.event], TRUE, FALSE)
         ELSE Rescheduled([w |-> w, event |-> setUpdated(nx.event)], FALSE, FALSE)
    ELSE Rescheduled([w |-> w, event |-> nx.event], FALSE, FALSE)

\* the mutant removes the deferred alarm without asking for the event to be
\* persisted
removeDeferred_NoUpdate(r) ==
    IF DEFERRED_ALARM \in r.event.alarms
    THEN [r EXCEPT !.event = removeExpiredAlarm(@, DEFERRED_ALARM)]
    ELSE r

\* if (event.deferred()): a lingering deferred alarm is removed
removeDeferred(r) ==
    IF DEFERRED_ALARM \in r.event.alarms
    THEN [r EXCEPT !.event = removeExpiredAlarm(@, DEFERRED_ALARM), !.update = TRUE]
    ELSE r

\* the mutant advances to the next recurrence although repetitions are pending
rescheduleMain_Advance(w, event, alarm, updateCalAndDisplay, tnow) ==
    removeDeferred(rescheduleNext(w, setNextOccurrence(event, tnow), alarm,
                                  updateCalAndDisplay))

\* the main-alarm branch of rescheduleAlarm
rescheduleMain(w, event, alarm, updateCalAndDisplay, tnow) ==
    removeDeferred(
        IF repeatCount(event) # 0 /\ mainEndRepeatTime(event) > tnow
        THEN Rescheduled([w |-> w, event |-> event], FALSE, TRUE)
        ELSE rescheduleNext(w, setNextOccurrence(event, tnow), alarm,
                            updateCalAndDisplay))

\* the end of rescheduleAlarm: the event is persisted, or the display told
rescheduleUpdate(r) ==
    IF r.update
    THEN [w |-> updateEvent(r.w, r.event), event |-> r.event]
    ELSE IF r.updateDisplay
    THEN [w |-> Log(eventHandled(r.w, r.event.id), "modify", r.event.id, "", {}),
          event |-> r.event]
    ELSE [w |-> r.w, event |-> r.event]

\* the mutant reschedules the main alarm whatever alarm it is called for
rescheduleAlarm_AlwaysMain(w, event, alarm, updateCalAndDisplay, tnow) ==
    rescheduleUpdate(
        IF alarm.repeatAtLogin
        THEN Rescheduled([w |-> w, event |-> event],
                         updateCalAndDisplay /\ event.updated, FALSE)
        ELSE rescheduleMain(w, event, alarm, updateCalAndDisplay, tnow))

\* KAlarmApp::rescheduleAlarm
rescheduleAlarm(w, event, alarm, updateCalAndDisplay, tnow) ==
    rescheduleUpdate(
        IF alarm.type \in {REMINDER_ALARM, DEFERRED_ALARM}
        THEN Rescheduled([w |-> w, event |-> removeExpiredAlarm(event, alarm.type)],
                         TRUE, FALSE)
        ELSE IF alarm.repeatAtLogin
        THEN Rescheduled([w |-> w, event |-> event],
                         updateCalAndDisplay /\ event.updated, FALSE)
        ELSE rescheduleMain(w, event, alarm, updateCalAndDisplay, tnow))

---------------------------------------------------------------------------
(* Command execution tracker *)

\* ProcData flags
PRE_ACTION    == "PRE_ACTION"
POST_ACTION   == "POST_ACTION"
RESCHEDULE    == "RESCHEDULE"
ALLOW_DEFER   == "ALLOW_DEFER"
TEMP_FILE     == "TEMP_FILE"
EXEC_IN_XTERM == "EXEC_IN_XTERM"

NoFile == 0
NoProc == 0

\* a name no existing temporary file has
freshFile(w) == Min({n \in 1 .. (Cardinality(w.files) + 1) : n \notin w.files})

\* a process id no tracked process or logging process has
freshPid(w) ==
    LET used == {w.procs[i].pid : i \in 1 .. Len(w.procs)} \cup w.logs
    IN  Min({n \in 1 .. (Cardinality(used) + 1) : n \notin used})

\* what can happen to a temporary file: it is written, it cannot be opened,
\* or it is opened (so it exists) and cannot be written
TmpOutcomes == {"ok", "open", "write"}

\* the temporary file is opened: it exists from now on (setAutoRemove(false))
openTempFile(w, event, f) ==
    [Log(w, "mkfile", event.id, "", {f}) EXCEPT !.files = @ \cup {f}]

\* KAlarmApp::createTempScriptFile: the file's name, or NoFile with an error
\* window when the file could not be opened or written
createTempScriptFile(w, event, alarm, outcome) ==
    IF outcome = "ok"
    THEN [w |-> openTempFile(w, event, freshFile(w)), file |-> freshFile(w)]
    ELSE IF outcome = "write"
    THEN [w |-> showErrorWin(openTempFile(w, event, freshFile(w)), event, "tempfile"),
          file |-> NoFile]
    ELSE [w |-> showErrorWin(w, event, "tempfile"), file |-> NoFile]

\* ProcData::~ProcData: the record's temporary files are removed
destroyProcData(w, pd) ==
    [Log(w, "rmfiles", pd.id, "", pd.tempFiles) EXCEPT !.files = @ \ pd.tempFiles]

\* KAlarmApp::commandErrorMsg
commandErrorMsg(w, event, flags) ==
    showErrorWin(w, event,
                 IF PRE_ACTION \in flags THEN "pre-action"
                 ELSE IF POST_ACTION \in flags THEN "post-action" ELSE "command")

\* remove the i-th element of a sequence
RemoveAt(s, i) == [j \in 1 .. (Len(s) - 1) |-> IF j < i THEN s[j] ELSE s[j + 1]]

\* new ProcData(proc, logproc, new KAEvent(event), new KAAlarm(alarm), flags)
newProcData(pid, command, event, alarm, flags, tmpXtermFile) ==
    [pid |-> pid, id |-> event.id, event |-> event, alarm |-> alarm, flags |-> flags,
     tempFiles |-> (IF TEMP_FILE \in flags THEN {command} ELSE {})
                     \cup (IF tmpXtermFile # NoFile THEN {tmpXtermFile} ELSE {}),
     logProcess |-> IF EXEC_IN_XTERM \notin flags /\ event.logFile
                    THEN pid + 1 ELSE NoProc,
     messageBoxParent |-> FALSE]

\* the logging sub-process of a command whose output goes to a log file
startLog(w, pd) ==
    IF pd.logProcess # NoProc
    THEN [Log(w, "logstart", pd.id, "", {pd.logProcess})
            EXCEPT !.logs = @ \cup {pd.logProcess}]
    ELSE w

\* the mutant leaves the record of a process that did not start in the tracker
startProcess_KeepRecord(w, pd, env) ==
    IF env.launchOk
    THEN [w |-> Log([w EXCEPT !.procs = Append(@, pd)], "launch", pd.id,
                    pd.alarm.type, pd.flags),
          proc |-> pd.pid]
    ELSE [w |-> commandErrorMsg(Log([w EXCEPT !.procs = Append(@, pd)],
                                    "launchfail", pd.id, pd.alarm.type, pd.flags),
                                pd.event, pd.flags),
          proc |-> NoProc]

\* the record is tracked and the process started; if it does not start, the
\* error is reported and the record removed and destroyed
startProcess(w, pd, env) ==
    IF env.launchOk
    THEN [w |-> Log([w EXCEPT !.procs = Append(@, pd)], "launch", pd.id,
                    pd.alarm.type, pd.flags),
          proc |-> pd.pid]
    ELSE [w |-> destroyProcData(
                  [commandErrorMsg(Log([w EXCEPT !.procs = Append(@, pd)],
                                       "launchfail", pd.id, pd.alarm.type, pd.flags),
                                   pd.event, pd.flags)
                     EXCEPT !.procs = RemoveAt(@, Len(@))],
                  pd),
          proc |-> NoProc]

\* the part of doShellCommand after the command line is built
launchProcess(w, pd, env) == startProcess(startLog(w, pd), pd, env)

\* doShellCommand in a terminal window, t the outcome of creating the
\* temporary file of the command line
launchInXterm(t, command, event, alarm, flags, env) ==
    IF t.file = NoFile
    THEN [w |-> t.w, proc |-> NoProc]
    ELSE launchProcess(t.w, newProcData(freshPid(t.w), command, event, alarm, flags,
                                        t.file), env)

\* KAlarmApp::doShellCommand.  command is the temporary script's name when
\* flags holds TEMP_FILE.  env.xterm is the placeholder of the configured
\* terminal command line
doShellCommand(w, command, event, alarm, flags, env) ==
    IF EXEC_IN_XTERM \in flags
         /\ (   (env.xterm = "%C" /\ TEMP_FILE \notin flags)
             \/ (env.xterm = "%W"))
    THEN launchInXterm(createTempScriptFile(w, event, alarm, env.tmpOk2), command,
                       event, alarm, flags, env)
    ELSE launchProcess(w, newProcData(freshPid(w), command, event, alarm, flags,
                                      NoFile), env)

---------------------------------------------------------------------------
(* Execute an alarm *)

\* the flags an execAlarm call is logged with
execFlags(reschedule, allowDefer, noPreAction) ==
    (IF reschedule THEN {"reschedule"} ELSE {})
      \cup (IF allowDefer THEN {"allowDefer"} ELSE {})
      \cup (IF noPreAction THEN {"noPreAction"} ELSE {})

\* execAlarm, case MESSAGE / FILE, once any pre-display command is done with:
\* a new window, or the existing one raised again
displayAlarm(w, event, alarm, reschedule, allowDefer) ==
    LET win == findEvent(w, event.id)
    IN  IF win = {}
           \/ (\E x \in win : ~x.hasDefer /\ ~alarm.repeatAtLogin)
           \/ (\E x \in win : x.type = REMINDER_ALARM /\ alarm.type # REMINDER_ALARM)
        THEN showMessageWin(w, event, alarm, reschedule, allowDefer)
        ELSE Log(w, "repeat", event.id, alarm.type, {})

\* what execAlarm leaves: the world, the event and the value returned
Executed(rs, result) == [w |-> rs.w, event |-> rs.event, result |-> result]

\* if (reschedule) rescheduleAlarm(event, alarm, true)
thenReschedule(w, event, alarm, reschedule, tnow) ==
    IF reschedule THEN rescheduleAlarm(w, event, alarm, TRUE, tnow)
    ELSE [w |-> w, event |-> event]

\* execAlarm, case COMMAND with a script: t is the outcome of creating the
\* temporary file of the script
execScript(t, event, alarm, flags, env) ==
    IF t.file = NoFile
    THEN [w |-> showErrorWin(t.w, event, "tempfile"), proc |-> NoProc]
    ELSE doShellCommand(t.w, t.file, event, alarm, flags \cup {TEMP_FILE}, env)

\* the mutant reschedules the alarm only if the command was started
commandStarted_RescheduleStarted(r, event, alarm, reschedule, tnow) ==
    Executed(thenReschedule(r.w, event, alarm, reschedule /\ r.proc # NoProc, tnow),
             IF r.proc = NoProc THEN "null" ELSE "proc")

\* execAlarm, case COMMAND, once r is the outcome of starting the command
commandStarted(r, event, alarm, reschedule, tnow) ==
    Executed(thenReschedule(r.w, event, alarm, reschedule, tnow),
             IF r.proc = NoProc THEN "null" ELSE "proc")

\* execAlarm, case COMMAND
execCommand(w, event, alarm, reschedule, env, tnow) ==
    commandStarted(
        IF event.commandScript
        THEN execScript(createTempScriptFile(w, event, alarm, env.tmpOk), event, alarm,
                        IF event.commandXterm THEN {EXEC_IN_XTERM} ELSE {}, env)
        ELSE doShellCommand(w, NoFile, event, alarm,
                            IF event.commandXterm THEN {EXEC_IN_XTERM} ELSE {}, env),
        event, alarm, reschedule, tnow)

\* KAMail::send and the window for its error messages
sendMail(w, event, alarm, env) ==
    IF env.mailErr \/ ~env.mailOk
    THEN showErrorWin(Log(w, "mail", event.id, alarm.type,
                          IF env.mailOk THEN {"sent"} ELSE {}), event, "mail")
    ELSE Log(w, "mail", event.id, alarm.type, {"sent"})

\* execAlarm, case EMAIL
execEmail(w, event, alarm, reschedule, env, tnow) ==
    Executed(thenReschedule(sendMail(w, event, alarm, env), event, alarm, reschedule, tnow),
             IF env.mailOk THEN "ok" ELSE "null")

\* the mutant shows the window at once although the command was started
preActionStarted_ShowAtOnce(r, event, alarm, reschedule, allowDefer) ==
    [w |-> displayAlarm(r.w, event, alarm, reschedule, allowDefer),
     event |-> event, result |-> "ok"]

\* execAlarm, case MESSAGE / FILE, r the outcome of starting the pre-display
\* command: the window is shown at once only if the command did not start
preActionStarted(r, event, alarm, reschedule, allowDefer) ==
    IF r.proc # NoProc
    THEN [w |-> r.w, event |-> event, result |-> "ok"]
    ELSE [w |-> displayAlarm(r.w, event, alarm, reschedule, allowDefer),
          event |-> event, result |-> "ok"]

\* the mutant runs the pre-display command whether or not the event has a
\* window
execEnabled_AnyWindow(w, event, alarm, reschedule, allowDefer, noPreAction, env, tnow) ==
    IF alarm.action \in {"MESSAGE", "FILE"}
    THEN IF ~noPreAction /\ event.preAction /\ env.authorised
         THEN preActionStarted(
                  doShellCommand(w, NoFile, event, alarm,
                                 (IF reschedule THEN {RESCHEDULE} ELSE {})
                                   \cup (IF allowDefer THEN {ALLOW_DEFER} ELSE {})
                                   \cup {PRE_ACTION}, env),
                  event, alarm, reschedule, allowDefer)
         ELSE [w |-> displayAlarm(w, event, alarm, reschedule, allowDefer),
               event |-> event, result |-> "ok"]
    ELSE IF alarm.action = "COMMAND"
    THEN execCommand(w, event, alarm, reschedule, env, tnow)
    ELSE IF alarm.action = "EMAIL"
    THEN execEmail(w, event, alarm, reschedule, env, tnow)
    ELSE [w |-> w, event |-> event, result |-> "null"]

\* execAlarm for an enabled event, after event.setArchive()
execEnabled(w, event, alarm, reschedule, allowDefer, noPreAction, env, tnow) ==
    IF alarm.action \in {"MESSAGE", "FILE"}
    THEN IF findEvent(w, event.id) = {} /\ ~noPreAction
              /\ event.preAction /\ env.authorised
         THEN preActionStarted(
                  doShellCommand(w, NoFile, event, alarm,
                                 (IF reschedule THEN {RESCHEDULE} ELSE {})
                                   \cup (IF allowDefer THEN {ALLOW_DEFER} ELSE {})
                                   \cup {PRE_ACTION}, env),
                  event, alarm, reschedule, allowDefer)
         ELSE [w |-> displayAlarm(w, event, alarm, reschedule, allowDefer),
               event |-> event, result |-> "ok"]
    ELSE IF alarm.action = "COMMAND"
    THEN execCommand(w, event, alarm, reschedule, env, tnow)
    ELSE IF alarm.action = "EMAIL"
    THEN execEmail(w, event, alarm, reschedule, env, tnow)
    ELSE [w |-> w, event |-> event, result |-> "null"]

\* the mutant executes the alarm of a disabled event like any other
execAlarm_IgnoreDisabled(w, event, alarm, reschedule, allowDefer, noPreAction, env, tnow) ==
    execEnabled(Log(w, "exec", event.id, alarm.type,
                    execFlags(reschedule, allowDefer, noPreAction)),
                setArchive(event), alarm, reschedule, allowDefer, noPreAction,
                env, tnow)

\* KAlarmApp::execAlarm
execAlarm(w, event, alarm, reschedule, allowDefer, noPreAction, env, tnow) ==
    IF ~event.enabled
    THEN Executed(thenReschedule(Log(w, "exec", event.id, alarm.type,
                                     execFlags(reschedule, allowDefer, noPreAction)),
                                 event, alarm, reschedule, tnow), "null")
    ELSE execEnabled(Log(w, "exec", event.id, alarm.type,
                         execFlags(reschedule, allowDefer, noPreAction)),
                     setArchive(event), alarm, reschedule, allowDefer, noPreAction,
                     env, tnow)

---------------------------------------------------------------------------
(* Dispatch engine: handleEvent *)

\* the date of a time, and the effective time of a date (its start of day)
dateOf(t) == t \div SecsPerDay
startOfDate(d) == d * SecsPerDay

\* type == LAST_RECURRENCE || type == FIRST_OR_ONLY_OCCURRENCE && !event.recurs()
\* (type compared with its OCCURRENCE_REPEAT bit)
isLastOccurrence(event, po) ==
    \/ (po.type = LAST_RECURRENCE /\ ~po.repeat)
    \/ (po.type = FIRST_OR_ONLY_OCCURRENCE /\ ~po.repeat /\ ~recurs(event))

\* the late-cancel decision, "cancel", "late" or "none", for an alarm that
\* is late: po is the last occurrence before now and poLate tells whether
\* that one is too late as well
lateVerdict(event, po, late, poLate) ==
    IF late
    THEN IF po.type = NO_OCCURRENCE THEN "late"
         ELSE IF poLate
         THEN IF isLastOccurrence(event, po) THEN "cancel" ELSE "late"
         ELSE "none"
    ELSE "none"

\* the mutant does not give the day after the days of grace
dateLimit_NoExtraDay(t, lateCancel) ==
    startOfDate(dateOf(t) + lateCancel \div MinutesPerDay)

\* the start of the day after the days of grace of a date-only alarm
dateLimit(t, lateCancel) ==
    startOfDate(dateOf(t) + lateCancel \div MinutesPerDay + 1)

\* the late-cancel decision for a date-only alarm
lateDateOnly(event, alarm, po, tnow) ==
    lateVerdict(event, po, tnow >= dateLimit(alarm.dt, alarm.lateCancel),
                tnow >= dateLimit(po.dt, alarm.lateCancel))

\* the mutant takes the threshold, which is in seconds, for minutes
lateTimed_Minutes(event, alarm, po, secs, tnow) ==
    lateVerdict(event, po, secs > maxLateness(alarm.lateCancel) * 60,
                tnow - po.dt > maxLateness(alarm.lateCancel) * 60)

\* the late-cancel decision for a timed alarm
lateTimed(event, alarm, po, secs, tnow) ==
    lateVerdict(event, po, secs > maxLateness(alarm.lateCancel),
                tnow - po.dt > maxLateness(alarm.lateCancel))

\* lines 1391-1398: note the alarm to execute unless one is noted already
selectAlarm(L, alarm) ==
    IF ~L.alarmToExecuteValid
    THEN [L EXCEPT !.alarmToExecute = alarm, !.alarmToExecuteValid = TRUE]
    ELSE L

\* the scan goes on after the alarm was cancelled or rescheduled (c): the
\* event is to be persisted when the scan is over
Updated(L, c) == [L EXCEPT !.w = c.w, !.event = c.event, !.updateCalAndDisplay = TRUE]

\* what the scan does with a due alarm, by the late-cancel decision
lateCancelActs(L, alarm, verdict, tnow) ==
    IF verdict = "cancel"
    THEN Updated(L, cancelAlarm(L.w, setArchive(L.event), alarm.type, FALSE))
    ELSE IF verdict = "late"
    THEN Updated(L, rescheduleAlarm(L.w, L.event, alarm, FALSE, tnow))
    ELSE selectAlarm(L, alarm)

\* the mutant applies the late-cancel check to an alarm whose threshold is 0
lateCancelStep_Always(L, alarm, secs, tnow) ==
    lateCancelActs(L, alarm,
                   IF alarm.dateOnly
                   THEN lateDateOnly(L.event, alarm, previousOccurrence(L.event, tnow),
                                     tnow)
                   ELSE lateTimed(L.event, alarm, previousOccurrence(L.event, tnow),
                                  secs, tnow),
                   tnow)

\* lines 1302-1398 of the loop body: the late-cancel check of a due alarm,
\* then its selection
lateCancelStep(L, alarm, secs, tnow) ==
    lateCancelActs(L, alarm,
                   IF alarm.lateCancel = 0 THEN "none"
                   ELSE IF alarm.dateOnly
                   THEN lateDateOnly(L.event, alarm, previousOccurrence(L.event, tnow),
                                     tnow)
                   ELSE lateTimed(L.event, alarm, previousOccurrence(L.event, tnow),
                                  secs, tnow),
                   tnow)

\* the alarm takes the time of the latest repetition po, if it is one
repetitionAt(L, alarm, po, secs, tnow) ==
    IF po.repeat
    THEN lateCancelStep([L EXCEPT !.repeatDT = po.dt], [alarm EXCEPT !.dt = po.dt],
                        tnow - po.dt, tnow)
    ELSE lateCancelStep([L EXCEPT !.repeatDT = po.dt], alarm, secs, tnow)

\* lines 1291-1301: the main alarm of an event with a simple repetition takes
\* the time of its latest repetition
repetitionStep(L, alarm, secs, tnow) ==
    IF repeatCount(L.event) # 0 /\ alarm.type = MAIN_ALARM
    THEN repetitionAt(L, alarm, previousOccurrence(L.event, tnow + 1), secs, tnow)
    ELSE lateCancelStep(L, alarm, secs, tnow)

\* the mutant keeps the alarm noted so far whatever the deferral
supersede_Never(L, alarm) == L

\* lines 1248-1258: a deferral later than the latest repetition supersedes
\* the alarm noted so far
supersede(L, alarm) ==
    IF alarm.type = DEFERRED_ALARM /\ repeatCount(L.event) # 0
         /\ L.repeatDT # Invalid /\ alarm.dt > L.repeatDT
    THEN [L EXCEPT !.alarmToExecute = InvalidAlarm, !.alarmToExecuteValid = FALSE,
                   !.updateCalAndDisplay = FALSE]
    ELSE L

\* the mutant selects an at-login alarm that has only just been set up
dueStep_NoLoginDelay(L, alarm, secs, tnow) ==
    IF secs < 0 /\ (~alarm.clockTime \/ alarm.dt - L.event.dstSkew > tnow)
    THEN L
    ELSE IF alarm.repeatAtLogin
    THEN IF L.alarmToExecute.valid THEN L
         ELSE repetitionStep(L, [alarm EXCEPT !.dt = tnow], secs, tnow)
    ELSE repetitionStep(L, alarm, secs, tnow)

\* the mutant goes on with an alarm that is not due yet
dueStep_NoDueCheck(L, alarm, secs, tnow) ==
    IF alarm.repeatAtLogin
    THEN IF secs < maxLateness(1) THEN L
         ELSE IF L.alarmToExecute.valid THEN L
         ELSE repetitionStep(L, [alarm EXCEPT !.dt = tnow], secs, tnow)
    ELSE repetitionStep(L, alarm, secs, tnow)

\* lines 1259-1398 of the loop body; secs is how long the alarm is due
dueStep(L, alarm, secs, tnow) ==
    IF secs < 0 /\ (~alarm.clockTime \/ alarm.dt - L.event.dstSkew > tnow)
    THEN L                                       \* not due yet
    ELSE IF alarm.repeatAtLogin
    THEN IF secs < maxLateness(1) THEN L
         ELSE IF L.alarmToExecute.valid THEN L
         ELSE repetitionStep(L, [alarm EXCEPT !.dt = tnow], secs, tnow)
    ELSE repetitionStep(L, alarm, secs, tnow)

\* one iteration of the loop over the alarms (lines 1246-1398)
scanStep(L, alarm, tnow) == dueStep(supersede(L, alarm), alarm, tnow - alarm.dt, tnow)

RECURSIVE scanAlarms(_, _, _)

\* the loop goes on with the alarm after this one
scanNext(L, alarm, tnow) == scanAlarms(L, nextAlarm(L.event, alarm), tnow)

\* the loop over the alarms of the event, from alarm on
scanAlarms(L, alarm, tnow) ==
    IF ~alarm.valid THEN L ELSE scanNext(scanStep(L, alarm, tnow), alarm, tnow)

\* the mutant does not persist the update of a TRIGGER
afterForced_NoTriggerUpdate(x, eventID, function, updateCalAndDisplay) ==
    IF function = EVENT_TRIGGER THEN x.w
    ELSE IF updateCalAndDisplay THEN updateEvent(x.w, x.event)
    ELSE eventHandled(x.w, eventID)

\* lines 1417-1423, x the world and the event after any forced execution
afterForced(x, eventID, function, updateCalAndDisplay) ==
    IF updateCalAndDisplay THEN updateEvent(x.w, x.event)
    ELSE IF function # EVENT_TRIGGER THEN eventHandled(x.w, eventID)
    ELSE x.w

\* the mutant reschedules the alarm it executes for a TRIGGER
forcedExec_Reschedule(w, event, function, env, tnow) ==
    IF function = EVENT_TRIGGER /\ firstAlarm(event).valid
    THEN execAlarm(w, event, firstAlarm(event), TRUE, TRUE, FALSE, env, tnow)
    ELSE [w |-> w, event |-> event]

\* lines 1410-1416: TRIGGER executes the first alarm when none was selected
forcedExec(w, event, function, env, tnow) ==
    IF function = EVENT_TRIGGER /\ firstAlarm(event).valid
    THEN execAlarm(w, event, firstAlarm(event), FALSE, TRUE, FALSE, env, tnow)
    ELSE [w |-> w, event |-> event]

\* the mutant goes on to the forced execution after the selected alarm
afterScan_NoElse(L, eventID, function, env, tnow) ==
    forcedExec(IF L.alarmToExecute.valid
               THEN execAlarm(L.w, L.event, L.alarmToExecute, TRUE,
                              ~L.alarmToExecute.repeatAtLogin, FALSE, env, tnow).w
               ELSE L.w,
               L.event, function, env, tnow).w

\* lines 1401-1423: what handleEvent does once the alarms are scanned
afterScan(L, eventID, function, env, tnow) ==
    IF L.alarmToExecute.valid
    THEN execAlarm(L.w, L.event, L.alarmToExecute, TRUE,
                   ~L.alarmToExecute.repeatAtLogin, FALSE, env, tnow).w
    ELSE afterForced(forcedExec(L.w, L.event, function, env, tnow), eventID, function,
                     L.updateCalAndDisplay)

\* the mutant reports success for an id the calendar does not hold
handleAbsent_Ok(w, eventID) == [w |-> eventHandled(w, eventID), ok |-> TRUE]

\* lines 1221-1226: the id is not in the calendar
handleAbsent(w, eventID) == [w |-> eventHandled(w, eventID), ok |-> FALSE]

\* the mutant deletes the event without archiving it
handleCancel_NoArchive(w, event) == [w |-> deleteEvent(w, event, FALSE), ok |-> TRUE]

\* lines 1227-1232: case EVENT_CANCEL
handleCancel(w, event) == [w |-> deleteEvent(w, event, TRUE), ok |-> TRUE]

\* KAlarmApp::handleEvent: the world afterwards and the reply
handleEvent(w, eventID, function, env, tnow) ==
    LET event == calEvent(w, eventID)
    IN  IF event = NoEvent
        THEN handleAbsent(w, eventID)
        ELSE IF function = EVENT_CANCEL
        THEN handleCancel(w, event)
        ELSE LET L0 == [w |-> w, event |-> event, repeatDT |-> Invalid,
                        updateCalAndDisplay |-> FALSE, alarmToExecuteValid |-> FALSE,
                        alarmToExecute |-> InvalidAlarm]
                 L  == scanAlarms(L0, firstAlarm(event), tnow)
             IN  [w |-> afterScan(L, eventID, function, env, tnow), ok |-> TRUE]

---------------------------------------------------------------------------
(* Quit logic *)

\* the state quitIf reads and writes
CurQuit ==
    [pending |-> mPendingQuit, code |-> mPendingQuitCode, exited |-> exited,
     mainWin |-> mainWindowOpen, tray |-> mTrayWindow]

\* the mutant exits although actions are queued or commands outstanding
quitIf_NoPending(q, exitCode, force, active, nwins, queueEmpty, procsEmpty) ==
    IF force
    THEN LET q1 == [q EXCEPT !.mainWin = FALSE, !.tray = FALSE]
         IN  IF nwins > 0 THEN q1 ELSE [q1 EXCEPT !.exited = exitCode]
    ELSE LET q1 == [q EXCEPT !.pending = FALSE]
         IN  IF active > 0 \/ nwins > 0 THEN q1
             ELSE IF q.mainWin THEN q1
             ELSE IF q.tray THEN q1
             ELSE [q1 EXCEPT !.exited = exitCode]

\* the mutant does not record the exit code with the pending quit
quitIf_NoCode(q, exitCode, force, active, nwins, queueEmpty, procsEmpty) ==
    IF force
    THEN LET q1 == [q EXCEPT !.mainWin = FALSE, !.tray = FALSE]
         IN  IF nwins > 0 THEN q1 ELSE [q1 EXCEPT !.exited = exitCode]
    ELSE LET q1 == [q EXCEPT !.pending = FALSE]
         IN  IF active > 0 \/ nwins > 0 THEN q1
             ELSE IF q.mainWin THEN q1
             ELSE IF q.tray THEN q1
             ELSE IF ~queueEmpty \/ ~procsEmpty
             THEN [q1 EXCEPT !.pending = TRUE]
             ELSE [q1 EXCEPT !.exited = exitCode]

\* KAlarmApp::quitIf(exitCode, force).  active is mActiveCount, nwins is
\* MessageWin::instanceCount(); q.mainWin stands for the main-window test of
\* line 784 and q.tray for mTrayWindow && checkSystemTray()
quitIf(q, exitCode, force, active, nwins, queueEmpty, procsEmpty) ==
    IF force
    THEN LET q1 == [q EXCEPT !.mainWin = FALSE, !.tray = FALSE]
         IN  IF nwins > 0 THEN q1 ELSE [q1 EXCEPT !.exited = exitCode]
    ELSE LET q1 == [q EXCEPT !.pending = FALSE]
         IN  IF active > 0 \/ nwins > 0 THEN q1
             ELSE IF q.mainWin THEN q1
             ELSE IF q.tray THEN q1
             ELSE IF ~queueEmpty \/ ~procsEmpty
             THEN [q1 EXCEPT !.pending = TRUE, !.code = exitCode]
             ELSE [q1 EXCEPT !.exited = exitCode]

SetQuit(q) ==
    /\ mPendingQuit' = q.pending
    /\ mPendingQuitCode' = q.code
    /\ exited' = q.exited
    /\ mainWindowOpen' = q.mainWin
    /\ mTrayWindow' = q.tray

---------------------------------------------------------------------------
(* The engine: handlers run from the event loop.  A handler that waits in  *)
(* a nested event loop stays on the stack while other handlers run.        *)

CurWorld ==
    [cal |-> calendar, arch |-> archived, wins |-> wins,
     procs |-> mCommandProcesses, logs |-> logs, files |-> files, trace |-> << >>]

SetWorld(w) ==
    /\ calendar' = w.cal
    /\ archived' = w.arch
    /\ wins' = w.wins
    /\ mCommandProcesses' = w.procs
    /\ logs' = w.logs
    /\ files' = w.files

\* the operations that open or update a calendar
CalOps == {"add", "update", "delete", "archive"}
HasCalOp(trace) == \E i \in 1 .. Len(trace) : trace[i].op \in CalOps

Frame(kind, code, cal) == [kind |-> kind, code |-> code, cal |-> cal]
Top == stack[Len(stack)]
Pop(s) == SubSeq(s, 1, Len(s) - 1)
ReplaceTop(s, f) == [s EXCEPT ![Len(s)] = f]

\* frames of handlers that wait in a nested event loop
Suspended == {"pqHandling", "newInstance", "fatalBox"}

\* the event loop runs: the top-level one, or one nested in a waiting handler
AtEventLoop ==
    /\ exited = NotExited
    /\ (IF stack = << >> THEN TRUE ELSE Top.kind \in Suspended)

\* a handler can start from the event loop (within the depth the model holds)
CanEnter == AtEventLoop /\ Len(stack) < MaxDepth

\* a calendar operation of an enclosing handler is still in flight
CalOpInFlight == \E i \in 1 .. Len(stack) : stack[i].cal

Call(op, via, id, function, found, ok, trace, calBefore) ==
    [op |-> op, via |-> via, id |-> id, function |-> function, found |-> found,
     ok |-> ok, trace |-> trace, calBefore |-> calBefore, archBefore |-> archived,
     depth |-> Len(stack)]

NoCall == Call("none", "none", "", "", FALSE, FALSE, << >>, calendar)

\* DcopQEntry: stamp is the entry's position in the enqueue history, midDrain
\* tells that it was appended while a drain was in progress
DcopQEntry(stamp, function, eventId, event) ==
    [stamp |-> stamp, function |-> function, eventId |-> eventId, event |-> event,
     midDrain |-> mProcessingQueue]

Stamps(q) == [i \in 1 .. Len(q) |-> q[i].stamp]

---------------------------------------------------------------------------
(* The events and the environment the model draws from *)

\* the current time: noon of day 10
Now0 == 10 * SecsPerDay + SecsPerDay \div 2

\* an event whose alarms are given by their lateness (seconds before Now0;
\* negative: in the future); None: the event has no such alarm
None == Invalid

MkEvent(id, action, enabled, archive, late, lc, rem, def, login, rec, rep, pre) ==
    LET main == Now0 - late
        off(x) == IF x = None THEN Invalid ELSE Now0 - x
    IN  [id |-> id, action |-> action, enabled |-> enabled, mArchive |-> archive,
         displaying |-> FALSE, updated |-> FALSE,
         alarms |-> {MAIN_ALARM}
                      \cup (IF rem = None THEN {} ELSE {REMINDER_ALARM})
                      \cup (IF def = None THEN {} ELSE {DEFERRED_ALARM})
                      \cup (IF login = None THEN {} ELSE {AT_LOGIN_ALARM}),
         dt |-> [t \in AlarmTypes |->
                   IF t = MAIN_ALARM THEN main
                   ELSE IF t = REMINDER_ALARM THEN off(rem)
                   ELSE IF t = DEFERRED_ALARM THEN off(def)
                   ELSE off(login)],
         lateCancel |-> lc, dateOnly |-> FALSE, clockTime |-> FALSE, dstSkew |-> 0,
         startDT     |-> IF rec = "none" THEN main ELSE main - 3600,
         recurPeriod |-> IF rec = "none" THEN 0 ELSE 3600,
         recurCount  |-> IF rec = "none" THEN 1 ELSE IF rec = "last" THEN 2 ELSE 3,
         repeatCount |-> rep, repeatInterval |-> IF rep = 0 THEN 0 ELSE 120,
         preAction |-> pre, postAction |-> FALSE,
         commandScript |-> FALSE, commandXterm |-> FALSE, logFile |-> FALSE]

\* the actions of an event, with the use of a pre-display command
ActionKinds == {<<"MESSAGE", FALSE>>, <<"MESSAGE", TRUE>>, <<"COMMAND", FALSE>>,
                <<"EMAIL", FALSE>>}

\* the events handleEvent is applied to
HandleEvents ==
    { MkEvent("e1", a[1], en, ar, late, lc, rem, def, login, rec, rep, a[2]) :
        a \in ActionKinds, en \in BOOLEAN, ar \in BOOLEAN, late \in {-50, 30, 100, 600},
        lc \in {0, 1, 5}, rem \in {None, 100}, def \in {None, -20, 20, 150},
        login \in {None, 30, 100}, rec \in {"none", "last", "more"},
        rep \in {0, 2} }

\* the events the engine's calendar starts with
EngineEvents ==
    { MkEvent("e1", "MESSAGE", TRUE, TRUE, 30, 0, None, None, None, "none", 0, TRUE),
      MkEvent("e1", "EMAIL", TRUE, FALSE, 600, 5, None, None, None, "more", 0, FALSE) }

\* the events scheduleEvent creates
NewEvents ==
    { MkEvent("e2", "COMMAND", TRUE, FALSE, 30, 0, None, None, None, "more", 0, FALSE) }

\* the notifications the engine receives, and the command lines
QueueCalls == { <<"e1", EVENT_HANDLE>>, <<"e1", EVENT_CANCEL>>, <<"zz", EVENT_TRIGGER>> }
DirectCalls == { <<"e1", EVENT_TRIGGER>>, <<"e1", EVENT_CANCEL>>, <<"zz", EVENT_HANDLE>> }

\* Preferences::cmdXTermCommand(): the placeholder the configured terminal
\* command line holds for the command ("" for none)
XtermCommands == {"%C", "%W", "%w", "%c", ""}

\* what the environment answers during one handler: whether a process
\* starts, a temporary file can be written, the mail is sent
Envs(launch, tmp, mail, xterm) ==
    [launchOk : launch, tmpOk : tmp, tmpOk2 : tmp, mailOk : mail, mailErr : {FALSE},
     authorised : {TRUE}, xterm : xterm]

\* the answers that matter to an event
EnvsFor(e) ==
    IF e = NoEvent THEN Envs({TRUE}, {"ok"}, {TRUE}, {""})
    ELSE IF e.action = "COMMAND"
    THEN Envs(BOOLEAN,
              IF e.commandScript \/ e.commandXterm THEN TmpOutcomes ELSE {"ok"},
              {TRUE}, IF e.commandXterm THEN XtermCommands ELSE {""})
    ELSE IF e.action = "EMAIL" THEN Envs({TRUE}, {"ok"}, BOOLEAN, {""})
    ELSE Envs(IF e.preAction THEN BOOLEAN ELSE {TRUE}, {"ok"}, {TRUE}, {""})


---------------------------------------------------------------------------
(* Initial state: the application constructed (KAlarmApp::KAlarmApp) *)

InitEngine ==
    /\ mInitialised = FALSE
    /\ mProcessingQueue = FALSE
    /\ mPendingQuit = FALSE
    /\ mPendingQuitCode = 0
    /\ mFatalError = 0
    /\ mFatalMessage = ""
    /\ mActiveCount = 0
    /\ mDcopQueue = << >>
    /\ mCommandProcesses = << >>
    /\ pqTimers = 0
    /\ fatalTimers = 0
    /\ stack = << >>
    /\ archived = {}
    /\ wins = {}
    /\ files = {}
    /\ logs = {}
    /\ now = Now0
    /\ exited = NotExited
    /\ invocations = 0
    /\ enqLog = << >>
    /\ handledLog = << >>
    /\ overlap = FALSE

Init ==
    /\ InitEngine
    /\ mTrayWindow \in BOOLEAN
    /\ mainWindowOpen = FALSE
    /\ \E e \in EngineEvents : calendar = [i \in EventIds |-> IF i = "e1" THEN e ELSE NoEvent]
    /\ lastCall = NoCall

---------------------------------------------------------------------------
(* Enqueueing *)

\* the mutant schedules no call of processQueue
SetUpDcop_NoTimer ==
    /\ CanEnter
    /\ ~mInitialised
    /\ mInitialised' = TRUE
    /\ UNCHANGED << mProcessingQueue, mPendingQuit, mPendingQuitCode, mFatalError, mFatalMessage,
                    mActiveCount, mDcopQueue, mCommandProcesses, mTrayWindow, pqTimers,
                    fatalTimers, stack, calendar, archived, wins, mainWindowOpen,
                    files, logs, now, invocations, exited, enqLog, handledLog, overlap, lastCall >>

\* KAlarmApp::setUpDcop (from initCheck)
SetUpDcop ==
    /\ CanEnter
    /\ ~mInitialised
    /\ mInitialised' = TRUE
    /\ pqTimers' = pqTimers + 1
    /\ UNCHANGED << mProcessingQueue, mPendingQuit, mPendingQuitCode, mFatalError, mFatalMessage,
                    mActiveCount, mDcopQueue, mCommandProcesses, mTrayWindow,
                    fatalTimers, stack, calendar, archived, wins, mainWindowOpen,
                    files, logs, now, invocations, exited, enqLog, handledLog, overlap, lastCall >>

\* KAlarmApp::dcopHandleEvent(eventID, function)
dcopHandleEvent(eventID, function) ==
    /\ CanEnter
    /\ Len(enqLog) < MaxEnqueue
    /\ LET stamp == Len(enqLog) + 1
       IN  /\ mDcopQueue' = Append(mDcopQueue, DcopQEntry(stamp, function, eventID, NoEvent))
           /\ enqLog' = Append(enqLog, stamp)
    /\ pqTimers' = IF mInitialised THEN pqTimers + 1 ELSE pqTimers
    /\ UNCHANGED << mInitialised, mProcessingQueue, mPendingQuit, mPendingQuitCode,
                    mFatalError, mFatalMessage, mActiveCount, mCommandProcesses, mTrayWindow,
                    fatalTimers, stack, calendar, archived, wins, mainWindowOpen,
                    files, logs, now, invocations, exited, handledLog, overlap, lastCall >>


\* alarmTime.setTime(QTime(hour, minute, 0)): round down to the minute
roundToMinute(t) == t - (t % 60)

\* the mutant queues the insertion entry before the TRIGGER entry
scheduleEntries_InsertFirst(event, tnow, initialised, stamp) ==
    LET due  == event.dt[MAIN_ALARM] <= tnow
        nx   == setNextOccurrence(event, tnow)
        ins  == IF due /\ (~recurs(event) \/ nx.type = NO_OCCURRENCE)
                THEN << >>
                ELSE << DcopQEntry(stamp, EVENT_HANDLE, "",
                                   IF due THEN nx.event ELSE event) >>
        trig == IF due /\ ~initialised
                THEN << DcopQEntry(stamp + Len(ins), EVENT_TRIGGER, "", event) >>
                ELSE << >>
    IN  ins \o trig

\* the entries scheduleEvent appends for an event whose (rounded) time is
\* alarmTime: a TRIGGER entry when it is due and the engine not initialised,
\* then the insertion entry when the event has an occurrence still to come
scheduleEntries(event, tnow, initialised, stamp) ==
    LET due  == event.dt[MAIN_ALARM] <= tnow
        trig == IF due /\ ~initialised
                THEN << DcopQEntry(stamp, EVENT_TRIGGER, "", event) >> ELSE << >>
        nx   == setNextOccurrence(event, tnow)
        ins  == IF due /\ (~recurs(event) \/ nx.type = NO_OCCURRENCE)
                THEN << >>
                ELSE << DcopQEntry(stamp + Len(trig), EVENT_HANDLE, "",
                                   IF due THEN nx.event ELSE event) >>
    IN  trig \o ins

\* KAlarmApp::scheduleEvent, for a valid date/time
scheduleEvent(e0) ==
    /\ CanEnter
    /\ LET event == [e0 EXCEPT !.dt[MAIN_ALARM] = roundToMinute(@),
                               !.startDT = roundToMinute(@)]
           tooLate == e0.lateCancel # 0
                        /\ e0.dt[MAIN_ALARM] < now - maxLateness(e0.lateCancel)
           entries == IF tooLate THEN << >>
                      ELSE scheduleEntries(event, now, mInitialised, Len(enqLog) + 1)
           due == event.dt[MAIN_ALARM] <= now
       IN  /\ Len(enqLog) + Len(entries) <= MaxEnqueue
           /\ \E env \in EnvsFor(event) :
                \E x \in {IF ~tooLate /\ due /\ mInitialised
                          THEN execAlarm(CurWorld, event, firstAlarm(event), FALSE, TRUE,
                                         FALSE, env, now).w
                          ELSE CurWorld} :
                    /\ Len(x.procs) <= MaxProcs
                    /\ SetWorld(x)
                    /\ lastCall' = Call("scheduleEvent", "scheduleEvent", event.id, "",
                                        FALSE, TRUE, x.trace, calendar)
                    /\ overlap' = (overlap \/ (HasCalOp(x.trace) /\ CalOpInFlight))
           /\ mDcopQueue' = mDcopQueue \o entries
           /\ enqLog' = enqLog \o Stamps(entries)
           /\ pqTimers' = IF Len(entries) > 0 /\ entries[Len(entries)].function = EVENT_HANDLE
                               /\ mInitialised
                          THEN pqTimers + 1 ELSE pqTimers
    /\ UNCHANGED << mInitialised, mProcessingQueue, mPendingQuit, mPendingQuitCode,
                    mFatalError, mFatalMessage, mActiveCount, mTrayWindow, fatalTimers, stack,
                    mainWindowOpen, now, invocations, exited, handledLog >>

---------------------------------------------------------------------------
(* The drain: processQueue *)

\* the mutant does not raise the flag
processingFlag_Unset == FALSE

\* mProcessingQueue = true
processingFlag == TRUE

\* the mutant leaves out the test of the flag
ProcessQueueGuard_NoFlag == mInitialised

\* if (mInitialised && !mProcessingQueue)
ProcessQueueGuard == mInitialised /\ ~mProcessingQueue

\* processQueue is called (its timer fires): it starts a drain, or returns
ProcessQueue ==
    /\ AtEventLoop
    /\ pqTimers > 0
    /\ pqTimers' = pqTimers - 1
    /\ IF ProcessQueueGuard
       THEN /\ Len(stack) < MaxDepth
            /\ mProcessingQueue' = processingFlag
            /\ stack' = Append(stack, Frame("pqLoop", 0, FALSE))
       ELSE UNCHANGED << mProcessingQueue, stack >>
    /\ lastCall' = Call("processQueue", "timer", "", "", FALSE, ProcessQueueGuard,
                        << >>, calendar)
    /\ UNCHANGED << mInitialised, mPendingQuit, mPendingQuitCode, mFatalError, mFatalMessage,
                    mActiveCount, mDcopQueue, mCommandProcesses, mTrayWindow,
                    fatalTimers, calendar, archived, wins, mainWindowOpen, files,
                    logs, now, invocations, exited, enqLog, handledLog, overlap >>

\* the body of the while loop for the entry at the head of the queue
handleEntry(w, entry, env, tnow) ==
    IF entry.eventId = ""
    THEN IF entry.function = EVENT_TRIGGER
         THEN [w |-> execAlarm(w, entry.event, firstAlarm(entry.event), FALSE, TRUE,
                               FALSE, env, tnow).w, ok |-> TRUE]
         ELSE IF entry.function = EVENT_HANDLE
         THEN [w |-> addEvent(w, entry.event), ok |-> TRUE]
         ELSE [w |-> w, ok |-> TRUE]
    ELSE handleEvent(w, entry.eventId, entry.function, env, tnow)

\* the event an entry is about
entryEvent(entry) ==
    IF entry.eventId = "" THEN entry.event
    ELSE IF entry.eventId \in EventIds THEN calendar[entry.eventId] ELSE NoEvent

\* one pass of the while loop: the head entry is handled; the handler may wait
\* in a nested event loop before the entry is dequeued
DrainHandle ==
    /\ exited = NotExited
    /\ stack # << >> /\ Top.kind = "pqLoop"
    /\ mDcopQueue # << >>
    /\ LET entry == Head(mDcopQueue)
       IN  \E env \in EnvsFor(entryEvent(entry)) :
           \E r \in {handleEntry(CurWorld, entry, env, now)} :
                 /\ Len(r.w.procs) <= MaxProcs
                 /\ SetWorld(r.w)
                 /\ handledLog' = Append(handledLog, entry.stamp)
                 /\ stack' = ReplaceTop(stack, Frame("pqHandling", 0, HasCalOp(r.w.trace)))
                 /\ overlap' = (overlap \/ (HasCalOp(r.w.trace) /\ CalOpInFlight))
                 /\ lastCall' = Call(IF entry.eventId = "" THEN "newEntry" ELSE "handleEvent",
                                     "processQueue", entryEvent(entry).id, entry.function,
                                     entryEvent(entry) # NoEvent, r.ok, r.w.trace, calendar)
    /\ UNCHANGED << mInitialised, mProcessingQueue, mPendingQuit, mPendingQuitCode,
                    mFatalError, mFatalMessage, mActiveCount, mDcopQueue, mTrayWindow, pqTimers,
                    fatalTimers, mainWindowOpen, now, invocations, exited, enqLog >>

\* the mutant takes the entry off the wrong end of the queue
dequeue_Last(q) == SubSeq(q, 1, Len(q) - 1)

\* mDcopQueue.dequeue()
dequeue(q) == Tail(q)

\* the handled entry leaves the queue and the loop goes on
DrainDequeue ==
    /\ exited = NotExited
    /\ stack # << >> /\ Top.kind = "pqHandling"
    /\ mDcopQueue' = dequeue(mDcopQueue)
    /\ stack' = ReplaceTop(stack, Frame("pqLoop", 0, FALSE))
    /\ UNCHANGED << mInitialised, mProcessingQueue, mPendingQuit, mPendingQuitCode,
                    mFatalError, mFatalMessage, mActiveCount, mCommandProcesses, mTrayWindow,
                    pqTimers, fatalTimers, calendar, archived, wins, mainWindowOpen,
                    files, logs, now, invocations, exited, enqLog, handledLog, overlap, lastCall >>

\* the mutant runs the quit check with exit code 0
PendingQuitCode_Zero == mPendingQuitCode * 0

\* the exit code a pending quit is retried with
PendingQuitCode == mPendingQuitCode

\* the queue is empty: purge, the pending quit, and the flag is cleared
DrainFinish ==
    /\ exited = NotExited
    /\ stack # << >> /\ Top.kind = "pqLoop"
    /\ mDcopQueue = << >>
    /\ LET q == IF mPendingQuit
                THEN quitIf(CurQuit, PendingQuitCode, FALSE, mActiveCount,
                            Cardinality(wins), TRUE, mCommandProcesses = << >>)
                ELSE CurQuit
       IN  /\ SetQuit(q)
           /\ IF q.exited = NotExited
              THEN mProcessingQueue' = FALSE /\ stack' = Pop(stack)
              ELSE UNCHANGED << mProcessingQueue, stack >>
           /\ lastCall' = Call("drainEnd", "processQueue", "", "", FALSE, mPendingQuit,
                               << >>, calendar)
    /\ UNCHANGED << mInitialised, mFatalError, mFatalMessage, mActiveCount, mDcopQueue,
                    mCommandProcesses, pqTimers, fatalTimers, calendar, archived,
                    wins, files, logs, now, invocations, enqLog, handledLog, overlap >>


---------------------------------------------------------------------------
(* Command line: --handleEvent, --triggerEvent, --cancelEvent *)

\* KAlarmApp::newInstance up to the return of handleEvent
newInstance(eventID, function) ==
    /\ CanEnter
    /\ mFatalError = 0
    /\ invocations < MaxInvocations
    /\ invocations' = invocations + 1
    /\ mActiveCount' = mActiveCount + 1
    /\ mInitialised' = TRUE
    /\ pqTimers' = IF mInitialised THEN pqTimers ELSE pqTimers + 1
    /\ \E env \in EnvsFor(calEvent(CurWorld, eventID)) :
       \E r \in {handleEvent(CurWorld, eventID, function, env, now)} :
             /\ Len(r.w.procs) <= MaxProcs
             /\ SetWorld(r.w)
             /\ stack' = Append(stack, Frame("newInstance", IF r.ok THEN 0 ELSE 1,
                                             HasCalOp(r.w.trace)))
             /\ overlap' = (overlap \/ (HasCalOp(r.w.trace) /\ CalOpInFlight))
             /\ lastCall' = Call("handleEvent", "newInstance", eventID, function,
                                 calEvent(CurWorld, eventID) # NoEvent, r.ok,
                                 r.w.trace, calendar)
    /\ UNCHANGED << mProcessingQueue, mPendingQuit, mPendingQuitCode, mFatalError, mFatalMessage,
                    mDcopQueue, mTrayWindow, fatalTimers, mainWindowOpen, now, exited,
                    enqLog, handledLog >>

\* the end of newInstance: --mActiveCount; quitIf(exitCode)
newInstanceEnd ==
    /\ exited = NotExited
    /\ stack # << >> /\ Top.kind = "newInstance"
    /\ mActiveCount' = mActiveCount - 1
    /\ SetQuit(quitIf(CurQuit, Top.code, FALSE, mActiveCount - 1, Cardinality(wins),
                      mDcopQueue = << >>, mCommandProcesses = << >>))
    /\ stack' = Pop(stack)
    /\ lastCall' = Call("quitIf", "newInstance", "", "", FALSE, FALSE, << >>, calendar)
    /\ UNCHANGED << mInitialised, mProcessingQueue, mFatalError, mFatalMessage, mDcopQueue,
                    mCommandProcesses, pqTimers, fatalTimers, calendar, archived,
                    wins, files, logs, now, invocations, enqLog, handledLog, overlap >>

---------------------------------------------------------------------------
(* Completion of a command *)

\* pd->logProcess->stdinExit(): the logging process is told to terminate
stopLog(w, pd) ==
    IF pd.logProcess # NoProc
    THEN [Log(w, "stdinExit", pd.id, "", {pd.logProcess}) EXCEPT !.logs = @ \ {pd.logProcess}]
    ELSE w

\* the exit status is checked
reportExit(w, pd, normalExit) ==
    IF normalExit THEN w ELSE commandErrorMsg(w, pd.event, pd.flags)

\* the mutant executes the alarm as if its pre-display command had not run
afterPreAction_Again(w, pd, env, tnow) ==
    IF PRE_ACTION \in pd.flags
    THEN execAlarm(w, pd.event, pd.alarm, RESCHEDULE \in pd.flags,
                   ALLOW_DEFER \in pd.flags, FALSE, env, tnow).w
    ELSE w

\* if (pd->preAction()) execAlarm(..., true): the alarm of a pre-display
\* command is displayed
afterPreAction(w, pd, env, tnow) ==
    IF PRE_ACTION \in pd.flags
    THEN execAlarm(w, pd.event, pd.alarm, RESCHEDULE \in pd.flags,
                   ALLOW_DEFER \in pd.flags, TRUE, env, tnow).w
    ELSE w

\* slotCommandExited up to the deletion of the record found at index i
commandExited(w, pd, i, normalExit, env, tnow) ==
    destroyProcData(
        [afterPreAction(reportExit(stopLog(w, pd), pd, normalExit), pd, env, tnow)
           EXCEPT !.procs = RemoveAt(@, i)],
        pd)

\* KAlarmApp::slotCommandExited for the i-th tracked command
slotCommandExited(i, normalExit) ==
    /\ AtEventLoop
    /\ i \in 1 .. Len(mCommandProcesses)
    /\ \E env \in EnvsFor(mCommandProcesses[i].event) :
       \E w \in {commandExited(CurWorld, mCommandProcesses[i], i, normalExit, env, now)} :
         /\ Len(w.procs) <= MaxProcs
         /\ SetWorld(w)
         /\ SetQuit(IF mPendingQuit /\ w.procs = << >>
                    THEN quitIf(CurQuit, PendingQuitCode, FALSE, mActiveCount,
                                Cardinality(w.wins), mDcopQueue = << >>, TRUE)
                    ELSE CurQuit)
         /\ overlap' = (overlap \/ (HasCalOp(w.trace) /\ CalOpInFlight))
         /\ lastCall' = Call("slotCommandExited", "slotCommandExited",
                             mCommandProcesses[i].id, "", TRUE, normalExit, w.trace,
                             calendar)
    /\ UNCHANGED << mInitialised, mProcessingQueue, mFatalError, mFatalMessage, mActiveCount,
                    mDcopQueue, pqTimers, fatalTimers, stack, now, invocations,
                    enqLog, handledLog >>

---------------------------------------------------------------------------
(* Windows and quitting *)

\* KAlarmApp::removeWindow(TrayWindow*): the tray icon goes
removeWindow ==
    /\ AtEventLoop
    /\ mTrayWindow
    /\ SetQuit(quitIf([CurQuit EXCEPT !.tray = FALSE], 0, FALSE, mActiveCount,
                      Cardinality(wins), mDcopQueue = << >>, mCommandProcesses = << >>))
    /\ lastCall' = Call("quitIf", "removeWindow", "", "", FALSE, FALSE, << >>, calendar)
    /\ UNCHANGED << mInitialised, mProcessingQueue, mFatalError, mFatalMessage, mActiveCount,
                    mDcopQueue, mCommandProcesses, pqTimers, fatalTimers, stack,
                    calendar, archived, wins, files, logs, now, invocations, enqLog, handledLog,
                    overlap >>

\* the user closes an alarm or error window; the last one to go asks to quit
closeMessageWin(x) ==
    /\ AtEventLoop
    /\ x \in wins
    /\ wins' = wins \ {x}
    /\ SetQuit(IF wins = {x}
               THEN quitIf(CurQuit, 0, FALSE, mActiveCount, 0,
                           mDcopQueue = << >>, mCommandProcesses = << >>)
               ELSE CurQuit)
    /\ lastCall' = Call("quitIf", "closeMessageWin", x.id, "", FALSE, FALSE, << >>, calendar)
    /\ UNCHANGED << mInitialised, mProcessingQueue, mFatalError, mFatalMessage, mActiveCount,
                    mDcopQueue, mCommandProcesses, pqTimers, fatalTimers, stack,
                    calendar, archived, files, logs, now, invocations, enqLog, handledLog, overlap >>

\* KAlarmApp::doQuit: the Quit menu item, confirmed
doQuit ==
    /\ AtEventLoop
    /\ SetQuit(quitIf(CurQuit, 0, TRUE, mActiveCount, Cardinality(wins),
                      mDcopQueue = << >>, mCommandProcesses = << >>))
    /\ lastCall' = Call("quitIf", "doQuit", "", "", FALSE, TRUE, << >>, calendar)
    /\ UNCHANGED << mInitialised, mProcessingQueue, mFatalError, mFatalMessage, mActiveCount,
                    mDcopQueue, mCommandProcesses, pqTimers, fatalTimers, stack,
                    calendar, archived, wins, files, logs, now, invocations, enqLog, handledLog,
                    overlap >>

---------------------------------------------------------------------------
(* Fatal errors *)

\* the messages displayFatalError is called with
FatalMessages == {"calendar", "daemon"}

\* the mutant takes every message, whatever the state
displayFatalError_Overwrite(message) ==
    /\ AtEventLoop
    /\ mFatalError' = 1
    /\ mFatalMessage' = message
    /\ fatalTimers' = fatalTimers + 1
    /\ UNCHANGED << mInitialised, mProcessingQueue, mPendingQuit, mPendingQuitCode,
                    mActiveCount, mDcopQueue, mCommandProcesses, mTrayWindow, pqTimers,
                    stack, calendar, archived, wins, mainWindowOpen, files, logs, now, invocations,
                    exited, enqLog, handledLog, overlap, lastCall >>

\* KAlarmApp::displayFatalError(message)
displayFatalError(message) ==
    /\ AtEventLoop
    /\ IF mFatalError = 0
       THEN /\ mFatalError' = 1
            /\ mFatalMessage' = message
            /\ fatalTimers' = fatalTimers + 1
       ELSE UNCHANGED << mFatalError, mFatalMessage, fatalTimers >>
    /\ UNCHANGED << mInitialised, mProcessingQueue, mPendingQuit, mPendingQuitCode,
                    mActiveCount, mDcopQueue, mCommandProcesses, mTrayWindow, pqTimers,
                    stack, calendar, archived, wins, mainWindowOpen, files, logs, now, invocations,
                    exited, enqLog, handledLog, overlap, lastCall >>

\* the body of KAlarmApp::quitFatal, up to the error box (case 1) or through
\* the forced quit (case 3); timers is the number of quitFatal timers pending
\* when it is entered
quitFatalBody(timers) ==
    /\ IF mFatalError = 1
       THEN /\ Len(stack) < MaxDepth
            /\ mFatalError' = 2
            /\ stack' = Append(stack, Frame("fatalBox", 1, FALSE))
            /\ fatalTimers' = timers
            /\ UNCHANGED << mPendingQuit, mPendingQuitCode, exited, mainWindowOpen,
                            mTrayWindow, lastCall >>
       ELSE IF mFatalError = 3
       THEN /\ SetQuit(quitIf(CurQuit, 1, TRUE, mActiveCount, Cardinality(wins),
                              mDcopQueue = << >>, mCommandProcesses = << >>))
            /\ lastCall' = Call("quitIf", "quitFatal", "", "", FALSE, TRUE, << >>, calendar)
            /\ fatalTimers' = timers + 1
            /\ UNCHANGED << mFatalError, stack >>
       ELSE /\ fatalTimers' = timers
            /\ UNCHANGED << mFatalError, stack, mPendingQuit, mPendingQuitCode, exited,
                            mainWindowOpen, mTrayWindow, lastCall >>
    /\ UNCHANGED << mInitialised, mProcessingQueue, mFatalMessage, mActiveCount,
                    mDcopQueue, mCommandProcesses, pqTimers, calendar, archived, wins,
                    files, logs, now, enqLog, handledLog, overlap >>

\* KAlarmApp::quitFatal, called by its timer
quitFatal ==
    /\ AtEventLoop
    /\ fatalTimers > 0
    /\ quitFatalBody(fatalTimers - 1)
    /\ UNCHANGED invocations

\* KAlarmApp::newInstance once the fatal state is set: it calls quitFatal and
\* returns 1
newInstanceFatal ==
    /\ AtEventLoop
    /\ mFatalError # 0
    /\ invocations < MaxInvocations
    /\ invocations' = invocations + 1
    /\ quitFatalBody(fatalTimers)

\* quitFatal after the error box is acknowledged: state 3, the forced quit,
\* and the timer for the next attempt
quitFatalAcknowledged ==
    /\ exited = NotExited
    /\ stack # << >> /\ Top.kind = "fatalBox"
    /\ mFatalError' = 3
    /\ SetQuit(quitIf(CurQuit, 1, TRUE, mActiveCount, Cardinality(wins),
                      mDcopQueue = << >>, mCommandProcesses = << >>))
    /\ stack' = Pop(stack)
    /\ fatalTimers' = fatalTimers + 1
    /\ lastCall' = Call("quitIf", "quitFatal", "", "", FALSE, TRUE, << >>, calendar)
    /\ UNCHANGED << mInitialised, mProcessingQueue, mFatalMessage, mActiveCount, mDcopQueue,
                    mCommandProcesses, pqTimers, calendar, archived, wins, files,
                    logs, now, invocations, enqLog, handledLog, overlap >>

---------------------------------------------------------------------------
(* The engine's specification *)

Next ==
    \/ SetUpDcop
    \/ \E c \in QueueCalls : dcopHandleEvent(c[1], c[2])
    \/ \E e \in NewEvents : scheduleEvent(e)
    \/ ProcessQueue
    \/ DrainHandle
    \/ DrainDequeue
    \/ DrainFinish
    \/ \E c \in DirectCalls : newInstance(c[1], c[2])
    \/ newInstanceEnd
    \/ \E i \in 1 .. MaxProcs, ne \in BOOLEAN : slotCommandExited(i, ne)
    \/ removeWindow
    \/ \E x \in wins : closeMessageWin(x)
    \/ doQuit

Spec == Init /\ [][Next]_vars

\* the handlers that wait in a nested event loop return, and a drain whose
\* queue is empty ends: the code runs on after the nested loop and after the
\* while loop
SpecFair ==
    /\ Spec
    /\ WF_vars(DrainDequeue)
    /\ WF_vars(DrainFinish)
    /\ WF_vars(newInstanceEnd)

---------------------------------------------------------------------------
(* Properties of the queue and of the quit logic (Spec, SpecFair) *)

\* the frames of the stack in which a queue entry is being handled
Handling == {i \in 1 .. Len(stack) : stack[i].kind = "pqHandling"}

\* the frames of the stack that are drains of the queue
Drains == {i \in 1 .. Len(stack) : stack[i].kind \in {"pqLoop", "pqHandling"}}

\* C1: every entry appended to the action queue is handled exactly once and in
\* the order of enqueueing, entries enqueued during a drain included: the
\* entries handled are a prefix of the entries enqueued, and the queue holds
\* exactly the others (with the entry whose handling has not yet returned)
C1_HandledOnceInOrder ==
    /\ Len(handledLog) <= Len(enqLog)
    /\ handledLog = SubSeq(enqLog, 1, Len(handledLog))
    /\ Stamps(mDcopQueue) =
         SubSeq(enqLog, Len(handledLog) + (IF Handling = {} THEN 1 ELSE 0), Len(enqLog))

\* two entries have been handled in order, the second one appended while the
\* drain that handled the first was in progress
C1_Witness ==
    /\ handledLog = << 1, 2 >>
    /\ stack # << >> /\ Top.kind = "pqHandling"
    /\ Head(mDcopQueue).stamp = 2
    /\ Head(mDcopQueue).midDrain

\* C2: the handling of two queue entries never overlaps: at most one drain is
\* active and at most one entry is being handled, whatever arrives meanwhile
C2_NoOverlappingHandling ==
    /\ Cardinality(Handling) <= 1
    /\ Cardinality(Drains) <= 1

\* an entry is being handled, another notification has arrived meanwhile and
\* processQueue has been called again and has returned at once
C2_Witness ==
    /\ stack # << >> /\ Top.kind = "pqHandling"
    /\ Len(mDcopQueue) = 2
    /\ mDcopQueue[2].midDrain
    /\ lastCall.op = "processQueue" /\ ~lastCall.ok

\* C3: every operation that opens or updates the calendar is called from the
\* processQueue loop, whatever the way into the engine, and no calendar
\* operation starts while another one is in flight
C3_CalendarOpsFromQueueLoop ==
    /\ HasCalOp(lastCall.trace) => lastCall.via = "processQueue"
    /\ ~overlap

\* C4: processQueue called while a drain is in progress, or before the engine
\* is initialised, changes nothing: no entry handled or removed, no purge or
\* quit check, the queue and all engine flags as they were
C4_GuardedCallIsNoOp ==
    [][ (pqTimers' = pqTimers - 1 /\ (mProcessingQueue \/ ~mInitialised))
          => UNCHANGED << mInitialised, mProcessingQueue, mPendingQuit, mPendingQuitCode,
                          mFatalError, mFatalMessage, mActiveCount, mDcopQueue, mCommandProcesses,
                          mTrayWindow, fatalTimers, stack, calendar, archived, wins,
                          mainWindowOpen, files, logs, exited, enqLog, handledLog >> ]_vars

\* processQueue has been called during a drain and has returned; the drain
\* goes on with its entry
C4_Witness ==
    /\ lastCall.op = "processQueue" /\ ~lastCall.ok
    /\ mInitialised /\ mProcessingQueue
    /\ mDcopQueue # << >>
    /\ Handling # {}

\* the step is a call of quitIf(code, false): at the end of newInstance, when
\* the tray icon or the last alarm window goes, or as the retry of a pending
\* quit at the end of a drain or at the completion of the last command
QuitRequest(code) ==
    \/ newInstanceEnd /\ code = Top.code
    \/ removeWindow /\ code = 0
    \/ \E x \in wins : wins = {x} /\ closeMessageWin(x) /\ code = 0
    \/ DrainFinish /\ mPendingQuit /\ code = mPendingQuitCode
    \/ /\ \E i \in 1 .. MaxProcs, ne \in BOOLEAN : slotCommandExited(i, ne)
       /\ mPendingQuit /\ mCommandProcesses' = << >>
       /\ code = mPendingQuitCode

\* what quitIf finds: actions queued or commands outstanding
Busy == mDcopQueue # << >> \/ mCommandProcesses # << >>

\* what quitIf finds: no instance active, no alarm window, no main window that
\* counts, no tray icon
NothingOpen == mActiveCount = 0 /\ wins = {} /\ ~mainWindowOpen /\ ~mTrayWindow

\* the process exits in this step, and not by the forced quit
ExitsUnforced == exited = NotExited /\ exited' # NotExited /\ ~doQuit

\* C5 as stated: a non-forced quit never exits the process while actions are
\* queued or commands outstanding, and whenever that is so it records the
\* pending quit with its exit code and returns
C5_AlwaysRecordedWhileBusy ==
    [][ /\ ExitsUnforced => ~Busy'
        /\ \A code \in {0, 1} :
             QuitRequest(code) /\ Busy'
               => exited' = NotExited /\ mPendingQuit' /\ mPendingQuitCode' = code ]_vars

\* C5 amended: a non-forced quit never exits the process while actions are
\* queued or commands outstanding; it records the pending quit with its exit
\* code when nothing else keeps the program running, and otherwise returns
\* with no quit pending
C5_DeferredWhileBusy ==
    [][ /\ ExitsUnforced => ~Busy'
        /\ \A code \in {0, 1} :
             QuitRequest(code) /\ Busy'
               => /\ exited' = NotExited
                  /\ IF NothingOpen'
                     THEN mPendingQuit' /\ mPendingQuitCode' = code
                     ELSE ~mPendingQuit' /\ mPendingQuitCode' = mPendingQuitCode ]_vars

\* a command line that failed has asked to quit with code 1 while an action
\* was queued: the quit is pending with that code
C5_Witness ==
    /\ lastCall.op = "quitIf" /\ lastCall.via = "newInstance"
    /\ mPendingQuit /\ mPendingQuitCode = 1
    /\ mDcopQueue # << >>
    /\ exited = NotExited

\* a quit is pending although nothing is queued and no command is outstanding
QuitOverdue ==
    /\ exited = NotExited
    /\ mPendingQuit
    /\ ~Busy

\* the step is the end of a drain, or the completion of the last command
\* outstanding, with a quit pending
QuitRetry ==
    /\ mPendingQuit
    /\ \/ DrainFinish
       \/ /\ \E i \in 1 .. MaxProcs, ne \in BOOLEAN : slotCommandExited(i, ne)
          /\ mCommandProcesses' = << >>

\* C6: a pending quit is retried with the recorded exit code at the end of the
\* drain and at the command completion that empties the tracker: the retry
\* exits with that code, drops the quit, or keeps it with its code while
\* something is still outstanding; a quit is pending with nothing outstanding
\* only inside a drain, and not for ever
C6_PendingQuitRetried ==
    /\ [](QuitOverdue => mProcessingQueue /\ Drains # {})
    /\ [][ QuitRetry =>
             \/ exited' = mPendingQuitCode /\ ~Busy'
             \/ exited' = NotExited /\ ~mPendingQuit'
             \/ /\ exited' = NotExited /\ Busy'
                /\ mPendingQuit' /\ mPendingQuitCode' = mPendingQuitCode ]_vars
    /\ QuitOverdue ~> ~QuitOverdue

\* the quit that a failed command line left pending has been executed with
\* code 1 at the end of the drain
C6_Witness ==
    /\ exited = 1
    /\ lastCall.op = "drainEnd" /\ lastCall.ok
    /\ mDcopQueue = << >> /\ mCommandProcesses = << >>
    /\ handledLog # << >>

---------------------------------------------------------------------------
(* handleEvent on its own: one command line for an event of any shape, and *)
(* the completions of the commands it starts                               *)

\* the command lines of this specification
HandleCalls == { <<"e1", EVENT_HANDLE>>, <<"e1", EVENT_TRIGGER>>, <<"e1", EVENT_CANCEL>>,
                 <<"zz", EVENT_HANDLE>> }

InitH ==
    /\ InitEngine
    /\ mTrayWindow = FALSE
    /\ mainWindowOpen = FALSE
    /\ \E e \in HandleEvents : calendar = [i \in EventIds |-> IF i = "e1" THEN e ELSE NoEvent]
    /\ lastCall = NoCall

NextH ==
    \/ \E c \in HandleCalls : newInstance(c[1], c[2])
    \/ newInstanceEnd
    \/ \E i \in 1 .. MaxProcs, ne \in BOOLEAN : slotCommandExited(i, ne)

SpecH == InitH /\ [][NextH]_vars

---------------------------------------------------------------------------
(* Properties of handleEvent (SpecH) *)

\* the number of execAlarm calls in a trace
ExecCount(trace) == Cardinality({i \in 1 .. Len(trace) : trace[i].op = "exec"})

\* the operations of a trace
TraceOps(trace) == {trace[i].op : i \in 1 .. Len(trace)}

\* the last handler invocation was handleEvent
HandleEventCalled == lastCall.op = "handleEvent"

\* the event handleEvent was called for, as stored before the call
EventBefore == lastCall.calBefore[lastCall.id]

\* C7: handleEvent for an id that is absent from the calendar acknowledges the
\* id to the notifier and does nothing else; it returns failure, executes no
\* alarm, leaves every stored event as it was and does not set the fatal state
C7_AbsentIdAcknowledged ==
    (HandleEventCalled /\ ~lastCall.found) =>
        /\ lastCall.trace = << Op("ack", lastCall.id, "", {}) >>
        /\ ~lastCall.ok
        /\ ExecCount(lastCall.trace) = 0
        /\ calendar = lastCall.calBefore
        /\ archived = lastCall.archBefore
        /\ mFatalError = 0

C7_Witness ==
    /\ HandleEventCalled /\ ~lastCall.found
    /\ lastCall.id = "zz" /\ calendar["e1"] # NoEvent
    /\ "ack" \in TraceOps(lastCall.trace)

\* C8: handleEvent with function CANCEL for a stored event deletes the event,
\* archiving it first if it is to be archived, and executes none of its alarms
C8_CancelDeletes ==
    (HandleEventCalled /\ lastCall.found /\ lastCall.function = EVENT_CANCEL) =>
        /\ lastCall.ok
        /\ calendar[lastCall.id] = NoEvent
        /\ ExecCount(lastCall.trace) = 0
        /\ IF EventBefore.mArchive
           THEN /\ archived = lastCall.archBefore \cup {EventBefore}
                /\ lastCall.trace = << Op("archive", lastCall.id, "", EventBefore.alarms),
                                       Op("delete", lastCall.id, "", {}) >>
           ELSE /\ archived = lastCall.archBefore
                /\ lastCall.trace = << Op("delete", lastCall.id, "", {}) >>

\* a due alarm (30 s late, no late-cancel) of an event to be archived is cancelled
C8_Witness ==
    /\ HandleEventCalled /\ lastCall.found /\ lastCall.function = EVENT_CANCEL
    /\ EventBefore.mArchive /\ EventBefore.dt[MAIN_ALARM] < now
    /\ EventBefore.lateCancel = 0
    /\ EventBefore \in archived
    /\ calendar[lastCall.id] = NoEvent

\* C9: one handleEvent invocation calls execAlarm at most once
C9_AtMostOneExec ==
    HandleEventCalled => ExecCount(lastCall.trace) <= 1

\* a TRIGGER for an event with a due main alarm and a due deferral: the main
\* alarm is selected and executed, the deferral skipped, nothing forced
C9_Witness ==
    /\ HandleEventCalled /\ lastCall.function = EVENT_TRIGGER
    /\ ExecCount(lastCall.trace) = 1
    /\ DEFERRED_ALARM \in EventBefore.alarms
    /\ EventBefore.dt[DEFERRED_ALARM] < now
    /\ EventBefore.dt[MAIN_ALARM] < now
    /\ \E i \in 1 .. Len(lastCall.trace) :
          /\ lastCall.trace[i].op = "exec"
          /\ lastCall.trace[i].type = MAIN_ALARM
          /\ "reschedule" \in lastCall.trace[i].flags

\* handleEvent (HANDLE or TRIGGER) was called for an event whose only alarm is
\* a timed main alarm without recurrence, later than its late-cancel allows
LateOnlyMain ==
    /\ HandleEventCalled /\ lastCall.found
    /\ lastCall.function \in {EVENT_HANDLE, EVENT_TRIGGER}
    /\ EventBefore.alarms = {MAIN_ALARM}
    /\ ~recurs(EventBefore) /\ ~EventBefore.dateOnly
    /\ EventBefore.lateCancel >= 1
    /\ now - EventBefore.dt[MAIN_ALARM] > maxLateness(EventBefore.lateCancel)

\* the event was cancelled: archived, its alarm removed, deleted, not executed
Cancelled ==
    /\ ExecCount(lastCall.trace) = 0
    /\ calendar[lastCall.id] = NoEvent
    /\ \E a \in archived : a.id = lastCall.id /\ a.alarms = EventBefore.alarms
    /\ \E i, j \in 1 .. Len(lastCall.trace) :
          /\ i < j
          /\ lastCall.trace[i].op = "archive"
          /\ lastCall.trace[j].op = "delete"

\* C10 as stated: an event whose only alarm is a non-recurring timed main
\* alarm with late-cancel L >= 1, later than maxLateness(L), is cancelled by
\* handleEvent and not executed
C10_LateCancelled == LateOnlyMain => Cancelled

\* handleEvent (HANDLE or TRIGGER) was called for a stored event
ScanCalled ==
    /\ HandleEventCalled /\ lastCall.found
    /\ lastCall.function \in {EVENT_HANDLE, EVENT_TRIGGER}

\* ... whose main alarm is due and is never to be cancelled for lateness
DueMainNeverCancel ==
    /\ ScanCalled
    /\ MAIN_ALARM \in EventBefore.alarms
    /\ EventBefore.lateCancel = 0
    /\ EventBefore.dt[MAIN_ALARM] <= now

\* the first thing the invocation did was to execute the main alarm as the
\* alarm selected (with rescheduling)
MainExecutedFirst ==
    /\ lastCall.trace # << >>
    /\ lastCall.trace[1].op = "exec"
    /\ lastCall.trace[1].type = MAIN_ALARM
    /\ "reschedule" \in lastCall.trace[1].flags

\* the event has a simple repetition and a deferral later than the latest
\* repetition of its main alarm
DeferralSupersedes ==
    /\ DEFERRED_ALARM \in EventBefore.alarms
    /\ EventBefore.repeatCount # 0
    /\ EventBefore.dt[DEFERRED_ALARM] > previousOccurrence(EventBefore, now + 1).dt

\* the main alarm was executed as the alarm selected
MainSelected ==
    \E i \in 1 .. Len(lastCall.trace) :
        /\ lastCall.trace[i].op = "exec"
        /\ lastCall.trace[i].type = MAIN_ALARM
        /\ "reschedule" \in lastCall.trace[i].flags

\* C11 as stated: with a late-cancel threshold of 0 a due main alarm is
\* selected and executed however late it is, and nothing is cancelled or
\* rescheduled for lateness before
C11_DueMainExecuted == DueMainNeverCancel => MainExecutedFirst

\* C11 amended: with a late-cancel threshold of 0 nothing is cancelled or
\* rescheduled for lateness, and a due main alarm is selected and executed
\* however late it is, unless a deferral later than the latest repetition of
\* the main alarm takes its place: then the main alarm is not selected
C11_DueMainExecutedUnlessSuperseded ==
    DueMainNeverCancel =>
        IF DeferralSupersedes THEN ~MainSelected ELSE MainExecutedFirst

\* a main alarm 600 s late with no late-cancel has been executed
C11_Witness ==
    /\ DueMainNeverCancel /\ ~DeferralSupersedes
    /\ now - EventBefore.dt[MAIN_ALARM] = 600
    /\ MainExecutedFirst


\* how long the alarm of type t of the event has been due, for the main alarm
\* counted from its latest simple repetition
SecsLate(t) ==
    IF t = MAIN_ALARM /\ EventBefore.repeatCount # 0
         /\ previousOccurrence(EventBefore, now + 1).repeat
    THEN now - previousOccurrence(EventBefore, now + 1).dt
    ELSE now - EventBefore.dt[t]

\* handleEvent (HANDLE or TRIGGER) was called for an event whose timed alarm of
\* type t is due and exceeds its late-cancel threshold, its most recent
\* occurrence included
LateAlarm(t) ==
    /\ ScanCalled
    /\ t \in EventBefore.alarms /\ t # AT_LOGIN_ALARM
    /\ EventBefore.lateCancel >= 1 /\ ~EventBefore.dateOnly
    /\ EventBefore.dt[t] <= now
    /\ SecsLate(t) > maxLateness(EventBefore.lateCancel)
    /\ now - previousOccurrence(EventBefore, now).dt > maxLateness(EventBefore.lateCancel)

\* the alarm of type t was executed, as the alarm selected or at all
ExecutedAlarm(t, selected) ==
    \E i \in 1 .. Len(lastCall.trace) :
        /\ lastCall.trace[i].op = "exec"
        /\ lastCall.trace[i].type = t
        /\ selected => "reschedule" \in lastCall.trace[i].flags

\* the most recent occurrence of the event is not its last one
NotLastOccurrence ==
    /\ recurs(EventBefore)
    /\ previousOccurrence(EventBefore, now).type
         \in {FIRST_OR_ONLY_OCCURRENCE, RECURRENCE_DATE, RECURRENCE_DATE_TIME}

\* no alarm of the event was selected for execution
NoneSelected == \A t \in AlarmTypes : ~ExecutedAlarm(t, TRUE)

\* the event was rescheduled and persisted: its main alarm is at a later
\* occurrence, or stays where it is while simple repetitions are pending
RescheduledAndUpdated ==
    /\ "update" \in TraceOps(lastCall.trace)
    /\ calendar[lastCall.id] # NoEvent
    /\ MAIN_ALARM \in calendar[lastCall.id].alarms
    /\ IF EventBefore.repeatCount # 0 /\ mainEndRepeatTime(EventBefore) > now
       THEN calendar[lastCall.id].dt[MAIN_ALARM] = EventBefore.dt[MAIN_ALARM]
       ELSE calendar[lastCall.id].dt[MAIN_ALARM] > now

\* a late main alarm whose most recent occurrence is not the last one is
\* rescheduled and the event persisted (where no other alarm is selected,
\* whose execution persists the event later)
LateMainRescheduled ==
    (LateAlarm(MAIN_ALARM) /\ NotLastOccurrence /\ NoneSelected) => RescheduledAndUpdated

---------------------------------------------------------------------------
(* The lateness policy on its own: maxLateness applied to one argument *)

\* the late-cancel minutes maxLateness is applied to: the small ones, a day,
\* and those around the largest whose seconds an int holds
MaxLateCancel == 120
LateCancels ==
    (-3 .. MaxLateCancel) \cup {MinutesPerDay, IntMax \div 60, IntMax \div 60 + 1,
                                IntMax \div 60 + 2, IntMax}

\* what the int arithmetic of lines 79-80 can return for the argument: the
\* value, or, where a product or a sum overflows (which is undefined), the
\* value of a wrapping build or some other int
maxLatenessInt(lateCancel) ==
    IF lateCancel >= 1
         /\ (\/ Times60Overflows(lateCancel - 1)
             \/ AddOverflows(DaemonInterval + LATENESS_LEEWAY, (lateCancel - 1) * 60))
    THEN {WrapAdd(DaemonInterval + LATENESS_LEEWAY, WrapTimes60(lateCancel - 1)),
          IntMin, 0, IntMax}
    ELSE {maxLateness(lateCancel)}

InitL ==
    /\ InitEngine
    /\ mTrayWindow = FALSE
    /\ mainWindowOpen = FALSE
    /\ calendar = [i \in EventIds |-> NoEvent]
    /\ \E lc \in LateCancels : lastCall = [op |-> "none", lateCancel |-> lc]

\* one call of maxLateness(lateCancel)
maxLatenessCall ==
    /\ lastCall.op = "none"
    /\ \E r \in maxLatenessInt(lastCall.lateCancel) :
          lastCall' = [op |-> "maxLateness", lateCancel |-> lastCall.lateCancel,
                       result |-> r]
    /\ UNCHANGED << mInitialised, mProcessingQueue, mPendingQuit, mPendingQuitCode,
                    mFatalError, mFatalMessage, mActiveCount, mDcopQueue, mCommandProcesses,
                    mTrayWindow, pqTimers, fatalTimers, stack, calendar, archived,
                    wins, mainWindowOpen, files, logs, now, exited, invocations,
                    enqLog, handledLog, overlap >>

NextL == maxLatenessCall

SpecL == InitL /\ [][NextL]_vars

\* C13: maxLateness(lateCancel) is daemonInterval + 5 + (lateCancel - 1) * 60
\* for every lateCancel >= 1, and daemonInterval + 5 for every lateCancel < 1
\* (the product is compared through its quotient by 60)
C13_MaxLatenessFormula ==
    lastCall.op = "maxLateness" =>
        IF lastCall.lateCancel >= 1
        THEN /\ lastCall.result >= DaemonInterval + LATENESS_LEEWAY
             /\ (lastCall.result - DaemonInterval - LATENESS_LEEWAY) % 60 = 0
             /\ (lastCall.result - DaemonInterval - LATENESS_LEEWAY) \div 60
                  = lastCall.lateCancel - 1
        ELSE lastCall.result = DaemonInterval + LATENESS_LEEWAY

\* the formula holds wherever the seconds fit an int
MaxLatenessInRange ==
    (lastCall.op = "maxLateness" /\ lastCall.lateCancel <= IntMax \div 60) =>
        C13_MaxLatenessFormula


\* handleEvent (HANDLE or TRIGGER) was called for an event with an at-login
\* alarm
AtLoginScanned == ScanCalled /\ AT_LOGIN_ALARM \in EventBefore.alarms

\* the call has shown a window for the at-login alarm
AtLoginShown ==
    \E i \in 1 .. Len(lastCall.trace) :
        /\ lastCall.trace[i].op = "show"
        /\ lastCall.trace[i].type = AT_LOGIN_ALARM

\* C14: an at-login alarm is not selected for execution on a pass where it
\* became due less than maxLateness(1) seconds ago, nor on a pass where
\* another alarm of the event is selected; when it is selected, the time it
\* displays is the current time
C14_AtLoginSelection ==
    AtLoginScanned =>
        /\ now - EventBefore.dt[AT_LOGIN_ALARM] < maxLateness(1)
             => ~ExecutedAlarm(AT_LOGIN_ALARM, TRUE)
        /\ (\E t \in AlarmTypes \ {AT_LOGIN_ALARM} : ExecutedAlarm(t, TRUE))
             => ~ExecutedAlarm(AT_LOGIN_ALARM, TRUE)
        /\ (ExecutedAlarm(AT_LOGIN_ALARM, TRUE) /\ AtLoginShown)
             => \E x \in wins : /\ x.id = lastCall.id /\ x.type = AT_LOGIN_ALARM
                                /\ x.dt = now

\* an at-login alarm set up 100 s ago was selected, no other alarm being due,
\* and its window displays the current time, not the time it was set up
C14_Witness ==
    /\ AtLoginScanned
    /\ now - EventBefore.dt[AT_LOGIN_ALARM] = 100
    /\ EventBefore.dt[MAIN_ALARM] > now
    /\ ExecutedAlarm(AT_LOGIN_ALARM, TRUE) /\ AtLoginShown
    /\ \E x \in wins : x.type = AT_LOGIN_ALARM /\ x.dt = now /\ x.dt # EventBefore.dt[AT_LOGIN_ALARM]


\* handleEvent executed the main alarm first, as the alarm selected, and
\* execAlarm went on to reschedule it at once (a command, an email or a
\* disabled event; a window reschedules when it is closed), while simple
\* repetitions of the current occurrence were still pending
MainRescheduledRepPending ==
    /\ ScanCalled /\ MainExecutedFirst
    /\ MAIN_ALARM \in EventBefore.alarms
    /\ EventBefore.action \in {"COMMAND", "EMAIL"} \/ ~EventBefore.enabled
    /\ EventBefore.repeatCount # 0
    /\ mainEndRepeatTime(EventBefore) > now

\* what the call told the notifier, the display and the calendar, in order
RescheduleOps ==
    SelectSeq(lastCall.trace,
              LAMBDA o : o.op \in {"ack", "modify", "update", "archive", "delete", "add"})

\* only the acknowledgement and the displayed time were refreshed, and no
\* stored event changed
OnlyDisplayRefreshed ==
    /\ RescheduleOps = << Op("ack", lastCall.id, "", {}), Op("modify", lastCall.id, "", {}) >>
    /\ calendar = lastCall.calBefore
    /\ archived = lastCall.archBefore

\* C15 as stated: rescheduling the main alarm while simple repetitions are
\* pending leaves the recurrence state unchanged and refreshes only the
\* notifier acknowledgement and the displayed time
C15_OnlyDisplayRefreshed == MainRescheduledRepPending => OnlyDisplayRefreshed

\* C15 amended: rescheduling the main alarm while simple repetitions are
\* pending never advances the event to its next recurrence; it refreshes only
\* the acknowledgement and the displayed time, unless the event has a
\* deferred alarm: that one is removed and the event updated in the calendar
C15_NoAdvanceWhilePending ==
    MainRescheduledRepPending =>
        IF DEFERRED_ALARM \notin EventBefore.alarms
        THEN OnlyDisplayRefreshed
        ELSE /\ RescheduleOps = << Op("update", lastCall.id, "",
                                      EventBefore.alarms \ {DEFERRED_ALARM}) >>
             /\ calendar[lastCall.id] # NoEvent
             /\ calendar[lastCall.id].alarms = EventBefore.alarms \ {DEFERRED_ALARM}
             /\ calendar[lastCall.id].dt = EventBefore.dt
             /\ archived = lastCall.archBefore

\* the main alarm of a recurring event, 100 s due with repetitions 20 s and
\* 140 s ahead, was executed and rescheduled: the event stays where it is
C15_Witness ==
    /\ MainRescheduledRepPending
    /\ recurs(EventBefore) /\ now - EventBefore.dt[MAIN_ALARM] = 100
    /\ DEFERRED_ALARM \notin EventBefore.alarms
    /\ "modify" \in TraceOps(lastCall.trace)
    /\ calendar[lastCall.id].dt[MAIN_ALARM] = EventBefore.dt[MAIN_ALARM]


\* the execAlarm calls of a trace, in order
ExecOps(trace) == SelectSeq(trace, LAMBDA o : o.op = "exec")

\* the commands a trace tried to start
Launches(trace) == SelectSeq(trace, LAMBDA o : o.op \in {"launch", "launchfail"})

\* every pre-display command the last call started was started by an
\* execAlarm call for the same alarm, and its record carries the reschedule
\* and allow-defer values of that call
RecordKeepsArguments(call) ==
    \A i \in 1 .. Len(call.trace) :
        (call.trace[i].op = "launch" /\ PRE_ACTION \in call.trace[i].flags) =>
            /\ i > 1 /\ call.trace[i - 1].op = "exec"
            /\ call.trace[i - 1].id = call.trace[i].id
            /\ call.trace[i - 1].type = call.trace[i].type
            /\ "noPreAction" \notin call.trace[i - 1].flags
            /\ (RESCHEDULE \in call.trace[i].flags)
                 <=> ("reschedule" \in call.trace[i - 1].flags)
            /\ (ALLOW_DEFER \in call.trace[i].flags)
                 <=> ("allowDefer" \in call.trace[i - 1].flags)

\* the step is the completion of the tracked command pd: the follow-up of a
\* pre-display command is one execAlarm call for its event and alarm, with
\* noPreAction and the values its record carries, and starts no command
FollowUp(pd, call) ==
    /\ call.op = "slotCommandExited" /\ call.id = pd.id
    /\ PRE_ACTION \in pd.flags =>
          /\ ExecOps(call.trace)
               = << Op("exec", pd.id, pd.alarm.type,
                       execFlags(RESCHEDULE \in pd.flags, ALLOW_DEFER \in pd.flags, TRUE)) >>
          /\ Launches(call.trace) = << >>

\* C16: for each command-execution record flagged PRE_ACTION, completion of
\* its process causes exactly one follow-up execAlarm call for the same event
\* and alarm, with noPreAction true and with the reschedule and allow-defer
\* values of the original call; the follow-up never launches the pre-action
\* command again
C16_PreActionFollowUp ==
    [][ /\ RecordKeepsArguments(lastCall')
        /\ (\/ Len(mCommandProcesses') < Len(mCommandProcesses)
            \/ (lastCall'.op = "slotCommandExited" /\ lastCall' # lastCall)) =>
              \E i \in 1 .. Len(mCommandProcesses) :
                  /\ mCommandProcesses' = RemoveAt(mCommandProcesses, i)
                  /\ FollowUp(mCommandProcesses[i], lastCall') ]_vars

\* the pre-display command of a forced execution (TRIGGER, nothing due: no
\* rescheduling, deferral allowed) has completed and the alarm's window is up
C16_Witness ==
    /\ lastCall.op = "slotCommandExited"
    /\ ExecOps(lastCall.trace)
         = << Op("exec", "e1", MAIN_ALARM, {"allowDefer", "noPreAction"}) >>
    /\ "show" \in TraceOps(lastCall.trace)
    /\ mCommandProcesses = << >>


---------------------------------------------------------------------------
(* Commands: handleEvent for a due command alarm of any kind (a command     *)
(* line or a script, in a terminal window or not, with a log file or not),  *)
(* or for a display alarm with a pre-display command, and the completions   *)

\* a due command alarm
CommandEvent(rec, script, xterm, log) ==
    [MkEvent("e1", "COMMAND", TRUE, FALSE, 30, 0, None, None, None, rec, 0, FALSE)
       EXCEPT !.commandScript = script, !.commandXterm = xterm, !.logFile = log]

CommandEvents ==
    { CommandEvent(rec, script, xterm, log) :
        rec \in {"none", "more"}, script \in BOOLEAN, xterm \in BOOLEAN, log \in BOOLEAN }
      \cup { MkEvent("e1", "MESSAGE", TRUE, FALSE, 30, 0, None, None, None, rec, 0, TRUE) :
               rec \in {"none", "more"} }

InitC ==
    /\ InitEngine
    /\ mTrayWindow = FALSE
    /\ mainWindowOpen = FALSE
    /\ \E e \in CommandEvents : calendar = [i \in EventIds |-> IF i = "e1" THEN e ELSE NoEvent]
    /\ lastCall = NoCall

SpecC == InitC /\ [][NextH]_vars

\* the temporary files of the tracked commands
TrackedFiles == UNION {mCommandProcesses[i].tempFiles : i \in 1 .. Len(mCommandProcesses)}

\* C17: every temporary script file created for a command invocation is
\* deleted when the invocation ends, on completion and on every failure path
\* of the launch, and not before: between handlers the temporary files that
\* exist are those of the tracked commands
C17_TempFilesOfTrackedCommands == files = TrackedFiles


\* the i-th operation of the trace is a command that failed to start: the
\* error is displayed next, and the alarm of a pre-display command is
\* displayed at once, as it is when doShellCommand returns null
FailureReported(trace, i, windows) ==
    /\ i < Len(trace)
    /\ trace[i + 1].op = "errwin" /\ trace[i + 1].id = trace[i].id
    /\ \E x \in windows : x.err /\ x.id = trace[i].id
    /\ PRE_ACTION \in trace[i].flags =>
          \E j \in (i + 2) .. Len(trace) :
              /\ trace[j].op \in {"show", "repeat"}
              /\ trace[j].id = trace[i].id /\ trace[j].type = trace[i].type

\* C18: when a command fails to launch, doShellCommand displays an error,
\* removes the record it created from the tracker and returns null: after it
\* the tracker holds no record for the process that did not start, and the
\* other records are unchanged
C18_FailedLaunchUntracked ==
    [][ (lastCall' # lastCall /\ Launches(lastCall'.trace) # << >>
           /\ \A i \in 1 .. Len(lastCall'.trace) : lastCall'.trace[i].op # "launch") =>
          /\ mCommandProcesses' = mCommandProcesses
          /\ \A i \in 1 .. Len(lastCall'.trace) :
                lastCall'.trace[i].op = "launchfail" =>
                    FailureReported(lastCall'.trace, i, wins') ]_vars

\* a command failed to start while another command was tracked, which still is
C18_Witness ==
    /\ "launchfail" \in TraceOps(lastCall.trace)
    /\ "launch" \notin TraceOps(lastCall.trace)
    /\ Len(mCommandProcesses) = 1
    /\ mCommandProcesses[1].id # lastCall.trace[1].id
    /\ \E x \in wins : x.err


---------------------------------------------------------------------------
(* execAlarm on its own: the alarms of an event of any kind are executed   *)
(* with any arguments, some windows and commands being already there, and  *)
(* the commands started complete                                           *)

\* executions in one behaviour
MaxExecs == 2

\* the events execAlarm is applied to: an alarm 30 s overdue, with or without
\* a reminder, an at-login alarm, further recurrences and sub-repetitions
ExecEvents ==
    { MkEvent("e1", a[1], en, FALSE, 30, 0, rem, None, login, rec, rep, a[2]) :
        a \in ActionKinds, en \in BOOLEAN, rem \in {None, 100}, login \in {None, 30},
        rec \in {"none", "more"}, rep \in {0, 2} }

InitX ==
    /\ InitEngine
    /\ mTrayWindow = FALSE
    /\ mainWindowOpen = FALSE
    /\ \E e \in ExecEvents : calendar = [i \in EventIds |-> IF i = "e1" THEN e ELSE NoEvent]
    /\ lastCall = NoCall

\* KAlarmApp::execAlarm(event, alarm, reschedule, allowDefer, noPreAction)
\* for the alarm of the given type of event e1; whether shell commands are
\* authorised is the environment's answer too
execAlarmCall(type, reschedule, allowDefer, noPreAction) ==
    /\ AtEventLoop
    /\ invocations < MaxExecs
    /\ calendar["e1"] # NoEvent
    /\ type \in calendar["e1"].alarms
    /\ \E env0 \in EnvsFor(calendar["e1"]),
          auth \in (IF calendar["e1"].preAction THEN BOOLEAN ELSE {TRUE}) :
       \E r \in {execAlarm(CurWorld, calendar["e1"], alarmOf(calendar["e1"], type),
                           reschedule, allowDefer, noPreAction,
                           [env0 EXCEPT !.authorised = auth], now)} :
         /\ Len(r.w.procs) <= MaxProcs
         /\ SetWorld(r.w)
         /\ lastCall' = [op |-> "execAlarm", id |-> "e1", type |-> type,
                         reschedule |-> reschedule, allowDefer |-> allowDefer,
                         noPreAction |-> noPreAction, authorised |-> auth,
                         event |-> calendar["e1"], before |-> CurWorld,
                         result |-> r.result, trace |-> r.w.trace]
    /\ invocations' = invocations + 1
    /\ UNCHANGED << mInitialised, mProcessingQueue, mPendingQuit, mPendingQuitCode,
                    mFatalError, mFatalMessage, mActiveCount, mDcopQueue, mTrayWindow, pqTimers,
                    fatalTimers, stack, mainWindowOpen, now, exited, enqLog,
                    handledLog, overlap >>

NextX ==
    \/ \E type \in AlarmTypes, re \in BOOLEAN, ad \in BOOLEAN, np \in BOOLEAN :
         execAlarmCall(type, re, ad, np)
    \/ \E i \in 1 .. MaxProcs, ne \in BOOLEAN : slotCommandExited(i, ne)

SpecX == InitX /\ [][NextX]_vars

---------------------------------------------------------------------------
(* Properties of execAlarm (SpecX) *)

\* the operations by which an alarm is executed
ExecutionOps == {"show", "repeat", "errwin", "launch", "launchfail", "logstart",
                 "mkfile", "mail"}

\* execAlarm has just run on a disabled event
DisabledExec == lastCall.op = "execAlarm" /\ ~lastCall.event.enabled

\* what rescheduleAlarm(event, alarm, true) makes of the state execAlarm was
\* called in
RescheduledFrom(call) ==
    rescheduleAlarm(Log(call.before, "exec", call.id, call.type,
                        execFlags(call.reschedule, call.allowDefer, call.noPreAction)),
                    call.event, alarmOf(call.event, call.type), TRUE, now).w

\* the calendar, the archive and the operations are those of the rescheduler
ReschedulerCalled(call) ==
    \E w \in {RescheduledFrom(call)} :
        calendar = w.cal /\ archived = w.arch /\ call.trace = w.trace

\* nothing but the call itself happened
NothingDone(call) ==
    /\ calendar = call.before.cal /\ archived = call.before.arch
    /\ Len(call.trace) = 1

\* C19: execAlarm on a disabled event shows no window, launches no command
\* and sends no email; it returns the null result, and it calls the
\* rescheduler exactly when its reschedule argument is true
C19_DisabledIsNoOp ==
    DisabledExec =>
        /\ lastCall.result = "null"
        /\ TraceOps(lastCall.trace) \cap ExecutionOps = {}
        /\ wins = lastCall.before.wins
        /\ mCommandProcesses = lastCall.before.procs
        /\ files = lastCall.before.files /\ logs = lastCall.before.logs
        /\ lastCall.trace[1].op = "exec"
        /\ IF lastCall.reschedule THEN ReschedulerCalled(lastCall)
           ELSE NothingDone(lastCall)

\* the due main alarm of a disabled event was executed with rescheduling:
\* nothing was shown and the event's last occurrence is gone from the calendar
C19_Witness ==
    /\ DisabledExec
    /\ lastCall.type = MAIN_ALARM /\ lastCall.reschedule
    /\ lastCall.result = "null"
    /\ calendar["e1"] = NoEvent /\ lastCall.before.cal["e1"] # NoEvent
    /\ wins = {}

\* the alarm of a disabled event was executed without rescheduling: nothing
\* changed
C19_WitnessNoReschedule ==
    /\ DisabledExec
    /\ ~lastCall.reschedule
    /\ NothingDone(lastCall)
    /\ invocations = 2

\* execAlarm has just run for a display alarm of an enabled event that has a
\* pre-display command not yet run
PreActionCase ==
    /\ lastCall.op = "execAlarm"
    /\ lastCall.event.enabled
    /\ lastCall.event.action \in {"MESSAGE", "FILE"}
    /\ lastCall.event.preAction
    /\ ~lastCall.noPreAction

\* MessageWin::findEvent(event.id()) found a window when execAlarm was called
WindowBefore == findEvent(lastCall.before, lastCall.id) # {}

\* the alarm was displayed: in a new window, or the existing one raised
Displayed == TraceOps(lastCall.trace) \cap {"show", "repeat"} # {}

\* a command was launched, or its launch attempted
LaunchAttempted == TraceOps(lastCall.trace) \cap {"launch", "launchfail"} # {}

\* the pre-display command was started, carrying the arguments of the call,
\* and execAlarm returned without displaying
RanPreActionOnly ==
    /\ "launch" \in TraceOps(lastCall.trace)
    /\ ~Displayed
    /\ wins = lastCall.before.wins
    /\ lastCall.result = "ok"
    /\ mCommandProcesses # << >>
    /\ \E pd \in {mCommandProcesses[Len(mCommandProcesses)]} :
         /\ pd.id = lastCall.id
         /\ pd.flags = {PRE_ACTION}
                         \cup (IF lastCall.reschedule THEN {RESCHEDULE} ELSE {})
                         \cup (IF lastCall.allowDefer THEN {ALLOW_DEFER} ELSE {})
    /\ mCommandProcesses = Append(lastCall.before.procs,
                                  mCommandProcesses[Len(mCommandProcesses)])

\* C20, as stated: for a MESSAGE or FILE alarm, execAlarm runs the pre-display
\* command first and returns without displaying when a display window for
\* this event id already exists, a pre-display command is configured and it
\* has not already been run
C20_PreActionWhenWindowExists ==
    PreActionCase /\ WindowBefore => RanPreActionOnly

\* C20, amended: for a MESSAGE or FILE alarm with a pre-display command not
\* yet run, execAlarm runs the command first and returns without displaying
\* when no display window for this event id exists, shell commands are
\* authorised and the command starts; if it does not start the alarm is
\* displayed at once, and when a window exists or commands are not authorised
\* no command is run and the alarm is displayed
C20_PreActionWhenNoWindow ==
    PreActionCase =>
        IF ~WindowBefore /\ lastCall.authorised
        THEN IF "launchfail" \in TraceOps(lastCall.trace)
             THEN Displayed /\ mCommandProcesses = lastCall.before.procs
             ELSE RanPreActionOnly
        ELSE ~LaunchAttempted /\ Displayed
                /\ mCommandProcesses = lastCall.before.procs

\* the pre-display command of an event without a window has been started and
\* nothing is displayed
C20_Witness ==
    /\ PreActionCase
    /\ ~WindowBefore /\ lastCall.authorised
    /\ RanPreActionOnly
    /\ wins = {}

\* an event whose window is already up is executed again: its pre-display
\* command is not run
C20_WitnessWindow ==
    /\ PreActionCase
    /\ WindowBefore
    /\ ~LaunchAttempted /\ Displayed

---------------------------------------------------------------------------
(* The engine with fatal errors: displayFatalError can be called by the    *)
(* calendar code at any time the event loop runs, and quitFatal by its     *)
(* timers                                                                  *)

NextF ==
    \/ Next
    \/ \E message \in FatalMessages : displayFatalError(message)
    \/ quitFatal
    \/ newInstanceFatal
    \/ quitFatalAcknowledged

SpecF == Init /\ [][NextF]_vars

\* C21: once the fatal flag has been set, no further action-queue entry is
\* processed: processQueue handles no entry in a state where the fatal flag
\* is non-zero
C21_NoHandlingAfterFatal ==
    [][ handledLog' # handledLog => mFatalError = 0 ]_vars

---------------------------------------------------------------------------
(* Command line: a message, --file, --exec or --mail with its options.     *)
(* The options modelled are --color, --time, --recurrence, --interval,     *)
(* --repeat, --login and --late-cancel; the others are taken as not given. *)
(* A number option is given by the outcome of its conversion (toInt,       *)
(* convInterval): whether it converted, and the value.                     *)

\* an option that is not given, one that does not convert, one with a value
NotSet == [set |-> FALSE, ok |-> FALSE, value |-> 0]
Unparsed == [set |-> TRUE, ok |-> FALSE, value |-> 0]
Value(n) == [set |-> TRUE, ok |-> TRUE, value |-> n]

\* recurrence.longestInterval(), in minutes, of the --recurrence rule
LongestInterval == 60

\* the command lines of this specification
ScheduleArgs ==
    [file : BOOLEAN, exec : BOOLEAN, mail : BOOLEAN, message : BOOLEAN,
     color : {"", "0xff0000", "bogus"},
     time : {"", "future"},
     recurrence : BOOLEAN, login : BOOLEAN,
     interval : {NotSet, Unparsed, Value(10), Value(-5)},
     repeat : {NotSet, Unparsed, Value(0), Value(-2), Value(-1), Value(2), Value(7)},
     lateCancel : {NotSet, Unparsed, Value(0), Value(5)}]

\* a leading 0x is replaced by #, then QColor::setNamedColor and isValid
colourValid(text) ==
    (IF text = "0xff0000" THEN "#ff0000" ELSE text) \in {"#ff0000", "red"}

\* count, once --repeat is checked: !ok || !count || count < -1
\* || (count < 0 && haveRecurrence) is an error
repeatInvalid(args) ==
    \/ ~args.repeat.ok
    \/ args.repeat.value = 0
    \/ args.repeat.value < -1
    \/ (args.repeat.value < 0 /\ args.recurrence)

\* the repeat count the interval is used with
intervalCount(args) == IF args.repeat.set THEN args.repeat.value ELSE -1

\* the checks of the --interval branch, "" if they pass
usageInterval(args) ==
    IF args.login THEN "--login incompatible with --interval"
    ELSE IF args.repeat.set /\ repeatInvalid(args) THEN "Invalid --repeat parameter"
    ELSE IF ~args.repeat.set /\ args.recurrence THEN "--interval requires --repeat"
    ELSE IF ~args.interval.ok \/ args.interval.value < 0
    THEN "Invalid --interval parameter"
    ELSE IF args.recurrence
              /\ intervalCount(args) * args.interval.value > LongestInterval
    THEN "repetition is longer than --recurrence interval"
    ELSE ""

\* the mutant accepts any --late-cancel value
usageLateCancel_Accept(args) == ""

\* the check of --late-cancel
usageLateCancel(args) ==
    IF args.lateCancel.set /\ (~args.lateCancel.ok \/ args.lateCancel.value <= 0)
    THEN "Invalid late-cancel parameter"
    ELSE ""

\* the usage message the checks of the options end with, "" if they pass, in
\* the order of the code
usage(args) ==
    IF args.file /\ args.exec THEN "--exec incompatible with --file"
    ELSE IF args.file /\ args.mail THEN "--mail incompatible with --file"
    ELSE IF args.file /\ args.message THEN "message incompatible with --file"
    ELSE IF ~args.file /\ args.exec /\ args.mail THEN "--mail incompatible with --exec"
    ELSE IF args.color # "" /\ ~colourValid(args.color) THEN "Invalid --color parameter"
    ELSE IF args.recurrence /\ args.login
    THEN "--login incompatible with --recurrence"
    ELSE IF args.interval.set /\ usageInterval(args) # "" THEN usageInterval(args)
    ELSE IF ~args.interval.set /\ args.repeat.set THEN "--repeat requires --interval"
    ELSE usageLateCancel(args)

\* the event scheduleEvent constructs from the options
argsEvent(args) ==
    [MkEvent("e2",
             IF args.file THEN "FILE" ELSE IF args.exec THEN "COMMAND"
             ELSE IF args.mail THEN "EMAIL" ELSE "MESSAGE",
             TRUE, FALSE, IF args.time = "" THEN 0 ELSE -600,
             IF args.lateCancel.set THEN args.lateCancel.value ELSE 0,
             None, None, IF args.login THEN 0 ELSE None,
             IF args.recurrence \/ args.interval.set THEN "more" ELSE "none", 0, FALSE)
       EXCEPT !.repeatCount = IF args.recurrence /\ args.interval.set
                              THEN args.repeat.value - 1 ELSE 0,
              !.repeatInterval = IF args.recurrence /\ args.interval.set
                                 THEN args.interval.value * 60 ELSE 0]

\* what a command line leaves in lastCall
ScheduleCall(args, exitCode, trace) ==
    [op |-> "newInstance", via |-> "newInstance", id |-> "e2", function |-> "schedule",
     args |-> args, ok |-> (exitCode = 0), trace |-> trace, calBefore |-> calendar,
     archBefore |-> archived, depth |-> Len(stack)]

\* KAlarmApp::newInstance for such a command line, up to the return of
\* scheduleEvent: the options are checked, then initCheck and scheduleEvent
newInstanceSchedule(args) ==
    /\ CanEnter
    /\ mFatalError = 0
    /\ invocations < MaxInvocations
    /\ args.file \/ args.exec \/ args.mail \/ args.message
    /\ invocations' = invocations + 1
    /\ mActiveCount' = mActiveCount + 1
    /\ IF usage(args) # ""
       THEN /\ stack' = Append(stack, Frame("newInstance", 1, FALSE))
            /\ lastCall' = ScheduleCall(args, 1, << >>)
            /\ UNCHANGED << mInitialised, pqTimers, mDcopQueue, enqLog, calendar,
                            archived, wins, mCommandProcesses, logs, files, overlap >>
       ELSE \E event \in {[argsEvent(args) EXCEPT !.dt[MAIN_ALARM] = roundToMinute(@),
                                                  !.startDT = roundToMinute(@)]} :
            \E entries \in {IF event.lateCancel # 0
                                 /\ event.dt[MAIN_ALARM] < now - maxLateness(event.lateCancel)
                            THEN << >>
                            ELSE scheduleEntries(event, now, TRUE, Len(enqLog) + 1)} :
            \E env \in EnvsFor(event) :
            \E x \in {IF event.dt[MAIN_ALARM] <= now
                      THEN execAlarm(CurWorld, event, firstAlarm(event), FALSE, TRUE,
                                     FALSE, env, now).w
                      ELSE CurWorld} :
                /\ Len(enqLog) + Len(entries) <= MaxEnqueue
                /\ Len(x.procs) <= MaxProcs
                /\ SetWorld(x)
                /\ mInitialised' = TRUE
                /\ mDcopQueue' = mDcopQueue \o entries
                /\ enqLog' = enqLog \o Stamps(entries)
                /\ pqTimers' = pqTimers + (IF mInitialised THEN 0 ELSE 1)
                                        + (IF entries # << >> THEN 1 ELSE 0)
                /\ stack' = Append(stack, Frame("newInstance", 0, HasCalOp(x.trace)))
                /\ overlap' = (overlap \/ (HasCalOp(x.trace) /\ CalOpInFlight))
                /\ lastCall' = ScheduleCall(args, 0, x.trace)
    /\ UNCHANGED << mProcessingQueue, mPendingQuit, mPendingQuitCode, mFatalError, mFatalMessage,
                    mTrayWindow, fatalTimers, mainWindowOpen, now, exited, handledLog >>

NextN ==
    \/ /\ invocations < MaxInvocations
       /\ \E args \in ScheduleArgs : newInstanceSchedule(args)
    \/ newInstanceEnd
    \/ ProcessQueue
    \/ DrainHandle
    \/ DrainDequeue
    \/ DrainFinish
    \/ \E i \in 1 .. MaxProcs, ne \in BOOLEAN : slotCommandExited(i, ne)

SpecN == Init /\ [][NextN]_vars

---------------------------------------------------------------------------
(* Properties of the command line (SpecN) *)

\* options that exclude each other are given together
MutuallyExclusive(args) ==
    \/ args.file /\ (args.exec \/ args.mail \/ args.message)
    \/ args.exec /\ args.mail
    \/ args.login /\ (args.recurrence \/ args.interval.set)

\* a value that is not a number, or is out of range for its option
BadColour(args) == args.color = "bogus"
BadInterval(args) == args.interval.set /\ (~args.interval.ok \/ args.interval.value < 0)
BadRepeat(args) ==
    args.repeat.set /\ (~args.repeat.ok \/ args.repeat.value = 0 \/ args.repeat.value < -1)
BadLateCancel(args) ==
    args.lateCancel.set /\ (~args.lateCancel.ok \/ args.lateCancel.value <= 0)

ValidationError(args) ==
    \/ MutuallyExclusive(args)
    \/ BadColour(args)
    \/ BadInterval(args)
    \/ BadRepeat(args)
    \/ BadLateCancel(args)

\* a step that is newInstance for a command line scheduling an alarm
ScheduleStep ==
    /\ invocations' # invocations
    /\ lastCall'.op = "newInstance" /\ lastCall'.function = "schedule"

\* C22: a validation error in the command-line parameters (mutually
\* exclusive options, bad colour, bad interval, bad repeat count, bad
\* late-cancel value) aborts the operation before any state mutation: no
\* queue entry is added, no alarm is executed, no event is stored, and
\* newInstance yields exit code 1
C22_ValidationAborts ==
    [][ ScheduleStep /\ ValidationError(lastCall'.args) =>
          /\ UNCHANGED << mDcopQueue, enqLog, pqTimers, mInitialised, calendar,
                          archived, wins, mCommandProcesses, files, logs >>
          /\ lastCall'.trace = << >>
          /\ ~lastCall'.ok
          /\ stack' = Append(stack, Frame("newInstance", 1, FALSE)) ]_vars

\* a command line whose only fault is its late-cancel value was refused:
\* newInstance is about to end with exit code 1
C22_Witness ==
    /\ lastCall.op = "newInstance" /\ lastCall.function = "schedule"
    /\ BadLateCancel(lastCall.args)
    /\ ~MutuallyExclusive(lastCall.args) /\ ~BadColour(lastCall.args)
    /\ ~BadInterval(lastCall.args) /\ ~BadRepeat(lastCall.args)
    /\ mDcopQueue = << >> /\ enqLog = << >> /\ wins = {}
    /\ ~mInitialised
    /\ stack # << >> /\ stack[Len(stack)] = Frame("newInstance", 1, FALSE)

\* a valid command line for a due message has displayed it
C22_WitnessValid ==
    /\ lastCall.op = "newInstance" /\ lastCall.function = "schedule"
    /\ ~ValidationError(lastCall.args)
    /\ lastCall.ok
    /\ "show" \in TraceOps(lastCall.trace)

---------------------------------------------------------------------------
(* Properties of the stored events (SpecH) *)

\* C23: after any handleEvent, rescheduleAlarm or cancelAlarm operation no
\* event with zero alarm instances is left in or written to storage: when an
\* operation removes the last alarm instance of an event, the event is
\* deleted from storage rather than updated
C23_NoEventWithoutAlarms ==
    \A id \in EventIds : calendar[id] # NoEvent => calendar[id].alarms # {}

\* the operations of a trace that save an event to, or delete it from, the
\* calendar
Saves(trace) == {i \in 1 .. Len(trace) : trace[i].op \in {"update", "delete"}}

\* C24: one handleEvent invocation persists the event to the calendar at most
\* once: the rescheduling and cancelling of late alarms during the scan only
\* mark the event as changed, and the single save happens after the scan
C24_SavedAtMostOnce ==
    lastCall.op = "handleEvent" /\ lastCall.function \in {EVENT_HANDLE, EVENT_TRIGGER} =>
        Cardinality(Saves(lastCall.trace)) <= 1

---------------------------------------------------------------------------
(* What handleEvent does after the scan (SpecH) *)

\* the scan of the alarms of the event handleEvent was called for, done again
\* on the calendar as it was before the call
ScanBefore ==
    scanAlarms([w |-> [cal |-> lastCall.calBefore, arch |-> lastCall.archBefore,
                       wins |-> {}, procs |-> << >>, logs |-> {}, files |-> {},
                       trace |-> << >>],
                event |-> EventBefore, repeatDT |-> Invalid,
                updateCalAndDisplay |-> FALSE, alarmToExecuteValid |-> FALSE,
                alarmToExecute |-> InvalidAlarm],
               firstAlarm(EventBefore), now)

\* the operations of the invocation that follow those of the scan L
AfterOps(L) == SubSeq(lastCall.trace, Len(L.w.trace) + 1, Len(lastCall.trace))

\* the outcomes, after being the operations after the scan: (1) the selected
\* alarm is executed, with rescheduling; (2) an alarm is executed without; (3)
\* the update is persisted; (4) the notifier is told that nothing happened
SelectedExec(after) ==
    after # << >> /\ after[1].op = "exec" /\ "reschedule" \in after[1].flags
ForcedExecution(after) ==
    after # << >> /\ after[1].op = "exec" /\ "reschedule" \notin after[1].flags
UpdatePersisted(after) ==
    ~SelectedExec(after) /\ after # << >> /\ after[Len(after)].op = "update"
NoActionAcked(after) ==
    ~SelectedExec(after) /\ after # << >> /\ after[Len(after)].op = "ack"

OutcomeCount(after) ==
    (IF SelectedExec(after) THEN 1 ELSE 0) + (IF ForcedExecution(after) THEN 1 ELSE 0)
      + (IF UpdatePersisted(after) THEN 1 ELSE 0) + (IF NoActionAcked(after) THEN 1 ELSE 0)

\* C25, as stated: after the alarm scan of handleEvent (TRIGGER or HANDLE)
\* exactly one of four outcomes happens: the selected alarm is executed, else
\* for TRIGGER the first alarm is force-executed, else a dirty calendar is
\* persisted, else the no-op acknowledgement is sent; no two of them happen
\* in one invocation
C25_ExactlyOneOutcome ==
    ScanCalled => \E L \in {ScanBefore} : OutcomeCount(AfterOps(L)) = 1

\* C25, amended: if an alarm was selected it is executed and nothing else
\* happens; otherwise for TRIGGER the first alarm, if the event has one, is
\* force-executed, and then, whether or not that happened, the update is
\* persisted if the calendar was marked dirty, else the no-op acknowledgement
\* is sent for a function other than TRIGGER
C25_OutcomesAfterScan ==
    ScanCalled =>
        \E L \in {ScanBefore} : \E after \in {AfterOps(L)} :
            /\ SubSeq(lastCall.trace, 1, Len(L.w.trace)) = L.w.trace
            /\ IF L.alarmToExecute.valid
               THEN /\ SelectedExec(after) /\ after[1].type = L.alarmToExecute.type
                    /\ ExecCount(after) = 1
               ELSE /\ ForcedExecution(after)
                        <=> (lastCall.function = EVENT_TRIGGER /\ firstAlarm(L.event).valid)
                    /\ ForcedExecution(after) => after[1].type = firstAlarm(L.event).type
                    /\ UpdatePersisted(after) <=> L.updateCalAndDisplay
                    /\ NoActionAcked(after)
                        <=> (~L.updateCalAndDisplay /\ lastCall.function # EVENT_TRIGGER)
                    /\ ExecCount(after) <= 1

\* a TRIGGER whose scan rescheduled a late alarm and selected none: the first
\* alarm was force-executed and the update persisted as well
C25_Witness ==
    /\ ScanCalled /\ lastCall.function = EVENT_TRIGGER
    /\ \E L \in {ScanBefore} :
         /\ ~L.alarmToExecute.valid /\ L.updateCalAndDisplay
         /\ ForcedExecution(AfterOps(L)) /\ UpdatePersisted(AfterOps(L))

\* handleEvent was called with TRIGGER for an event none of whose alarms is
\* due
TriggerNoneDue ==
    /\ ScanCalled /\ lastCall.function = EVENT_TRIGGER
    /\ EventBefore.alarms # {}
    /\ ~EventBefore.clockTime
    /\ \A t \in EventBefore.alarms : EventBefore.dt[t] > now

---------------------------------------------------------------------------
(* cancelAlarm on its own: an alarm of an event of any kind, displayed or  *)
(* not, is cancelled with either value of updateCalAndDisplay              *)

\* the events cancelAlarm is applied to
CancelEvents ==
    { [MkEvent("e1", "MESSAGE", TRUE, ar, 30, lc, rem, def, login, rec, 0, FALSE)
         EXCEPT !.displaying = disp] :
        ar \in BOOLEAN, disp \in BOOLEAN, lc \in {0, 1}, rem \in {None, 100},
        def \in {None, 20}, login \in {None, 30}, rec \in {"none", "more"} }

InitK ==
    /\ InitEngine
    /\ mTrayWindow = FALSE
    /\ mainWindowOpen = FALSE
    /\ \E e \in CancelEvents : calendar = [i \in EventIds |-> IF i = "e1" THEN e ELSE NoEvent]
    /\ lastCall = NoCall

\* KAlarmApp::cancelAlarm(event, alarmType, updateCalAndDisplay) for event e1
\* as the calendar holds it
cancelAlarmCall(type, updateCalAndDisplay) ==
    /\ AtEventLoop
    /\ invocations < MaxExecs
    /\ calendar["e1"] # NoEvent
    /\ \E r \in {cancelAlarm(CurWorld, calendar["e1"], type, updateCalAndDisplay)} :
         /\ SetWorld(r.w)
         /\ lastCall' = [op |-> "cancelAlarm", id |-> "e1", type |-> type,
                         updateCalAndDisplay |-> updateCalAndDisplay,
                         event |-> calendar["e1"], before |-> CurWorld,
                         result |-> r.event, trace |-> r.w.trace]
    /\ invocations' = invocations + 1
    /\ UNCHANGED << mInitialised, mProcessingQueue, mPendingQuit, mPendingQuitCode,
                    mFatalError, mFatalMessage, mActiveCount, mDcopQueue, mTrayWindow, pqTimers,
                    fatalTimers, stack, mainWindowOpen, now, exited, enqLog,
                    handledLog, overlap >>

\* an archived event whose id is free is added to the calendar again
reAddArchived ==
    /\ AtEventLoop
    /\ invocations < MaxExecs
    /\ \E a \in archived :
         /\ calendar[a.id] = NoEvent
         /\ \E w \in {addEvent(CurWorld, a)} :
              /\ SetWorld(w)
              /\ lastCall' = [op |-> "addEvent", id |-> a.id, type |-> "",
                              updateCalAndDisplay |-> FALSE, event |-> a,
                              before |-> CurWorld, result |-> a, trace |-> w.trace]
    /\ invocations' = invocations + 1
    /\ UNCHANGED << mInitialised, mProcessingQueue, mPendingQuit, mPendingQuitCode,
                    mFatalError, mFatalMessage, mActiveCount, mDcopQueue, mTrayWindow, pqTimers,
                    fatalTimers, stack, mainWindowOpen, now, exited, enqLog,
                    handledLog, overlap >>

NextK ==
    \/ \E type \in AlarmTypes, u \in BOOLEAN : cancelAlarmCall(type, u)
    \/ reAddArchived

SpecK == InitK /\ [][NextK]_vars

---------------------------------------------------------------------------
(* Properties of cancelAlarm (SpecK) *)

\* cancelAlarm has just run and archived the event
CancelArchived ==
    /\ lastCall.op = "cancelAlarm"
    /\ lastCall.type = MAIN_ALARM
    /\ ~lastCall.event.displaying
    /\ lastCall.event.mArchive

\* C27: when cancelAlarm archives the event, the archive holds the event
\* with every alarm instance it had on entry, the one being cancelled
\* included; the event cancelAlarm leaves has the id it came with, under
\* which the calendar lost it or keeps it; and adding the archived copy to
\* the calendar again gives an event with all those alarm instances
C27_ArchivedBeforeRemoval ==
    CancelArchived =>
        /\ \E a \in archived :
             /\ a.id = lastCall.id
             /\ a.alarms = lastCall.event.alarms
             /\ addEvent(CurWorld, a).cal[lastCall.id].alarms = lastCall.event.alarms
        /\ \A a \in archived \ lastCall.before.arch : a.alarms = lastCall.event.alarms
        /\ lastCall.trace[1] = Op("archive", lastCall.id, "", lastCall.event.alarms)
        /\ lastCall.result.id = lastCall.event.id
        /\ lastCall.result.alarms = lastCall.event.alarms \ {MAIN_ALARM}
        /\ IF lastCall.result.alarms = {}
           THEN calendar[lastCall.id] = NoEvent
           ELSE calendar[lastCall.id].id = lastCall.id

\* an event with a reminder and a deferral was archived on the cancellation
\* of its main alarm, and stays in the calendar without the main alarm
C27_Witness ==
    /\ CancelArchived
    /\ lastCall.event.alarms = {MAIN_ALARM, REMINDER_ALARM, DEFERRED_ALARM}
    /\ lastCall.updateCalAndDisplay
    /\ calendar[lastCall.id] # NoEvent
    /\ calendar[lastCall.id].alarms = {REMINDER_ALARM, DEFERRED_ALARM}

\* the archived copy was added to the calendar again after the event had
\* been deleted with its last alarm
C27_WitnessReAdded ==
    /\ lastCall.op = "addEvent"
    /\ lastCall.before.cal[lastCall.id] = NoEvent
    /\ calendar[lastCall.id] # NoEvent
    /\ MAIN_ALARM \in calendar[lastCall.id].alarms

---------------------------------------------------------------------------
(* execAlarm on its own for the actions that can fail: commands entered as *)
(* a command line or as a script, run in a terminal window or not, and     *)
(* mails                                                                   *)

\* the events whose execution can fail
FailingEvents ==
    { CommandEvent(rec, script, xterm, FALSE) :
        rec \in {"none", "more"}, script \in BOOLEAN, xterm \in BOOLEAN }
      \cup { MkEvent("e1", "EMAIL", TRUE, ar, 30, 0, rem, None, None, rec, 0, FALSE) :
               ar \in BOOLEAN, rem \in {None, 100}, rec \in {"none", "more"} }

InitE ==
    /\ InitEngine
    /\ mTrayWindow = FALSE
    /\ mainWindowOpen = FALSE
    /\ \E e \in FailingEvents : calendar = [i \in EventIds |-> IF i = "e1" THEN e ELSE NoEvent]
    /\ lastCall = NoCall

SpecE == InitE /\ [][NextX]_vars

---------------------------------------------------------------------------
(* Properties of failing executions (SpecE) *)

\* execAlarm has just run a command or mail alarm of an enabled event
ActionExec ==
    /\ lastCall.op = "execAlarm"
    /\ lastCall.event.enabled
    /\ lastCall.event.action \in {"COMMAND", "EMAIL"}

\* ... and the action failed: execAlarm returned null
ActionFailed == ActionExec /\ lastCall.result = "null"

IsCalOp(o) == o.op \in CalOps

\* what rescheduleAlarm(event, alarm, true) makes of the calendar execAlarm
\* was called with (execAlarm has marked the event for archiving)
RescheduleOf(call) ==
    rescheduleAlarm(call.before, setArchive(call.event),
                    alarmOf(call.event, call.type), TRUE, now).w

C28_WitnessMail ==
    /\ ActionFailed
    /\ lastCall.event.action = "EMAIL"
    /\ lastCall.reschedule
    /\ calendar[lastCall.id] = NoEvent

\* a script whose temporary file could not be created, not rescheduled
C28_WitnessScript ==
    /\ ActionFailed
    /\ lastCall.event.commandScript
    /\ "launchfail" \notin TraceOps(lastCall.trace)
    /\ ~lastCall.reschedule
    /\ calendar = lastCall.before.cal

---------------------------------------------------------------------------
(* Alarms that are not due yet (SpecH) *)

\* handleEvent with function HANDLE was called for an event whose alarm of
\* type t is not due yet: its time is later than now, and it is not a
\* clock-time alarm whose time has passed in clock time
NotYetDue(t) ==
    /\ ScanCalled /\ lastCall.function = EVENT_HANDLE
    /\ t \in EventBefore.alarms
    /\ EventBefore.dt[t] > now
    /\ ~(EventBefore.clockTime /\ EventBefore.dt[t] - EventBefore.dstSkew <= now)

\* the stored event still has its alarm of type t, at the time it had
KeptAsItWas(t) ==
    /\ calendar[lastCall.id] # NoEvent
    /\ t \in calendar[lastCall.id].alarms
    /\ calendar[lastCall.id].dt[t] = EventBefore.dt[t]

\* the main alarm was rescheduled: after its execution, or for its lateness
MainRescheduled == ExecutedAlarm(MAIN_ALARM, TRUE) \/ LateAlarm(MAIN_ALARM)

\* C29: handleEvent with function HANDLE does not execute an alarm that is
\* not due yet, and neither cancels nor reschedules it: the stored event keeps
\* the alarm at the time it had.  (The one way such an alarm leaves the event
\* is not a cancellation or rescheduling of it: a deferral is dropped when
\* the main alarm is rescheduled.)
C29_NotDueUntouched ==
    \A t \in AlarmTypes :
        NotYetDue(t) =>
            /\ ~ExecutedAlarm(t, FALSE)
            /\ \/ KeptAsItWas(t)
               \/ /\ t = DEFERRED_ALARM
                  /\ MainRescheduled
                  /\ calendar[lastCall.id] # NoEvent

\* a due reminder was executed and removed while the main alarm, which is
\* not due yet, stayed as it was
C29_Witness ==
    /\ NotYetDue(MAIN_ALARM)
    /\ ExecutedAlarm(REMINDER_ALARM, TRUE)
    /\ KeptAsItWas(MAIN_ALARM)
    /\ REMINDER_ALARM \notin calendar[lastCall.id].alarms

\* a deferral that is not due yet stayed as it was while the event's late
\* at-login alarm was executed
C29_WitnessDeferral ==
    /\ NotYetDue(DEFERRED_ALARM)
    /\ NotYetDue(MAIN_ALARM)
    /\ ExecutedAlarm(AT_LOGIN_ALARM, TRUE)
    /\ KeptAsItWas(DEFERRED_ALARM)

\* a deferral that is not due yet was dropped with the rescheduling of the
\* main alarm
C29_WitnessDropped ==
    /\ NotYetDue(DEFERRED_ALARM)
    /\ MainRescheduled
    /\ calendar[lastCall.id] # NoEvent
    /\ DEFERRED_ALARM \notin calendar[lastCall.id].alarms

---------------------------------------------------------------------------
(* A deferral later than the latest repetition of the main alarm (SpecH) *)

\* handleEvent (HANDLE or TRIGGER) was called for an event with a simple
\* repetition whose main alarm is due and whose deferral is later than the
\* latest repetition of the main alarm
SupersedingDeferral ==
    /\ ScanCalled
    /\ DeferralSupersedes
    /\ MAIN_ALARM \in EventBefore.alarms
    /\ EventBefore.dt[MAIN_ALARM] <= now

DeferralDue == EventBefore.dt[DEFERRED_ALARM] <= now

\* C30 as stated: the deferral takes the place of the main alarm; if it is
\* not due yet the main alarm is not executed, and if it is due it is executed
\* instead of the main alarm
C30_DeferralTakesPrecedence ==
    SupersedingDeferral =>
        /\ ~ExecutedAlarm(MAIN_ALARM, FALSE)
        /\ DeferralDue => ExecutedAlarm(DEFERRED_ALARM, TRUE)

\* C30 amended: the main alarm is never executed as the alarm selected by the
\* scan; if the deferral is not due yet, a HANDLE does not execute the main
\* alarm at all; if the deferral is due and neither alarm is later than the
\* late-cancel threshold allows, the deferral is executed as the alarm
\* selected and the main alarm is not executed at all
C30_DeferralInPlaceOfMain ==
    SupersedingDeferral =>
        /\ ~ExecutedAlarm(MAIN_ALARM, TRUE)
        /\ (~DeferralDue /\ lastCall.function = EVENT_HANDLE) =>
               ~ExecutedAlarm(MAIN_ALARM, FALSE)
        /\ (DeferralDue /\ ~LateAlarm(MAIN_ALARM) /\ ~LateAlarm(DEFERRED_ALARM)) =>
               /\ ExecutedAlarm(DEFERRED_ALARM, TRUE)
               /\ ~ExecutedAlarm(MAIN_ALARM, FALSE)

\* a due deferral was executed and removed, and the main alarm, due as well,
\* was left as it was
C30_Witness ==
    /\ SupersedingDeferral /\ DeferralDue
    /\ ExecutedAlarm(DEFERRED_ALARM, TRUE)
    /\ ExecCount(lastCall.trace) = 1
    /\ calendar[lastCall.id] # NoEvent
    /\ calendar[lastCall.id].alarms = EventBefore.alarms \ {DEFERRED_ALARM}

\* under HANDLE the due main alarm was not executed, its deferral not being
\* due yet, and the event stayed as it was
C30_WitnessNotDue ==
    /\ SupersedingDeferral /\ ~DeferralDue
    /\ lastCall.function = EVENT_HANDLE
    /\ ExecCount(lastCall.trace) = 0
    /\ calendar = lastCall.calBefore

\* a TRIGGER executed the main alarm, without rescheduling, although the
\* deferral was not due yet
C30_WitnessTrigger ==
    /\ SupersedingDeferral /\ ~DeferralDue
    /\ lastCall.function = EVENT_TRIGGER
    /\ ExecutedAlarm(MAIN_ALARM, FALSE)

\* the due deferral was not executed: the main alarm was too late, and its
\* rescheduling removed the deferral
C30_WitnessDeferralLost ==
    /\ SupersedingDeferral /\ DeferralDue
    /\ lastCall.function = EVENT_HANDLE
    /\ LateAlarm(MAIN_ALARM) /\ ~LateAlarm(DEFERRED_ALARM)
    /\ ExecCount(lastCall.trace) = 0
    /\ calendar[lastCall.id] # NoEvent
    /\ DEFERRED_ALARM \notin calendar[lastCall.id].alarms

---------------------------------------------------------------------------
(* The display of an alarm with a pre-display command (Spec) *)

\* the pre-display commands of the event that are running
PreActionPids(procs, id) ==
    { procs[i].pid : i \in { j \in 1 .. Len(procs) :
                               procs[j].id = id /\ PRE_ACTION \in procs[j].flags } }

\* the display windows of the event
DisplayWins(ws, id) == { x \in ws : x.id = id /\ ~x.err }

\* the trace starts or raises a display window after position i
DisplayedAfter(trace, i) ==
    \E j \in (i + 1) .. Len(trace) : trace[j].op \in {"show", "repeat"}

\* position i of the trace is the outcome op of starting a pre-display command
PreActionOp(trace, i, op) ==
    trace[i].op = op /\ PRE_ACTION \in trace[i].flags

\* C31 as stated: while a pre-display command of an event is running, no
\* step creates a display window of the event
C31_NoWindowBeforeCompletion ==
    [][ \A id \in EventIds :
          PreActionPids(mCommandProcesses', id) # {} =>
              DisplayWins(wins', id) \subseteq DisplayWins(wins, id) ]_vars

\* C31 amended: the execAlarm call that starts a pre-display command shows
\* no window; the call whose pre-display command does not start shows the
\* window itself; and the completion of a pre-display command shows the
\* window through execAlarm with noPreAction
C31_WindowAfterOwnCommand ==
    /\ \A i \in 1 .. Len(lastCall.trace) :
         /\ PreActionOp(lastCall.trace, i, "launch") =>
                ~DisplayedAfter(lastCall.trace, i)
         /\ PreActionOp(lastCall.trace, i, "launchfail") =>
                DisplayedAfter(lastCall.trace, i)
         /\ (lastCall.trace[i].op = "exec" /\ "noPreAction" \in lastCall.trace[i].flags
               /\ lastCall.op = "slotCommandExited") =>
                /\ DisplayedAfter(lastCall.trace, i)
                /\ ~\E j \in (i + 1) .. Len(lastCall.trace) :
                       lastCall.trace[j].op \in {"launch", "launchfail"}

\* the pre-display command has completed and the window is there
C31_Witness ==
    /\ lastCall.op = "slotCommandExited"
    /\ \E i \in 1 .. Len(lastCall.trace) :
         /\ lastCall.trace[i].op = "exec"
         /\ "noPreAction" \in lastCall.trace[i].flags
         /\ DisplayedAfter(lastCall.trace, i)
    /\ DisplayWins(wins, lastCall.id) # {}
    /\ PreActionPids(mCommandProcesses, lastCall.id) = {}

\* a pre-display command did not start and the window was shown in the same
\* call, while an earlier pre-display command of the event is still running
C31_WitnessSecondCall ==
    /\ lastCall.op = "handleEvent"
    /\ \E i \in 1 .. Len(lastCall.trace) :
         PreActionOp(lastCall.trace, i, "launchfail") /\ DisplayedAfter(lastCall.trace, i)
    /\ PreActionPids(mCommandProcesses, lastCall.id) # {}

---------------------------------------------------------------------------
(* rescheduleAlarm on its own: an alarm of an event of any shape is         *)
(* rescheduled with either value of updateCalAndDisplay                     *)

\* the events rescheduleAlarm is applied to
RescheduleEvents ==
    { [MkEvent("e1", "MESSAGE", TRUE, ar, late, 0, rem, def, login, rec, rep, FALSE)
         EXCEPT !.updated = upd] :
        ar \in BOOLEAN, late \in {-50, 30, 600}, rem \in {None, 100},
        def \in {None, 20}, login \in {None, 30}, rec \in {"none", "last", "more"},
        rep \in {0, 2}, upd \in BOOLEAN }

InitR ==
    /\ InitEngine
    /\ mTrayWindow = FALSE
    /\ mainWindowOpen = FALSE
    /\ \E e \in RescheduleEvents : calendar = [i \in EventIds |-> IF i = "e1" THEN e ELSE NoEvent]
    /\ lastCall = NoCall

\* KAlarmApp::rescheduleAlarm(event, alarm, updateCalAndDisplay) for the alarm
\* of the given type of event e1 as the calendar holds it
rescheduleAlarmCall(type, updateCalAndDisplay) ==
    /\ AtEventLoop
    /\ invocations < MaxExecs
    /\ calendar["e1"] # NoEvent
    /\ type \in calendar["e1"].alarms
    /\ \E r \in {rescheduleAlarm(CurWorld, calendar["e1"], alarmOf(calendar["e1"], type),
                                 updateCalAndDisplay, now)} :
         /\ SetWorld(r.w)
         /\ lastCall' = [op |-> "rescheduleAlarm", id |-> "e1", type |-> type,
                         updateCalAndDisplay |-> updateCalAndDisplay,
                         event |-> calendar["e1"], before |-> CurWorld,
                         result |-> r.event, trace |-> r.w.trace]
    /\ invocations' = invocations + 1
    /\ UNCHANGED << mInitialised, mProcessingQueue, mPendingQuit, mPendingQuitCode,
                    mFatalError, mFatalMessage, mActiveCount, mDcopQueue, mTrayWindow, pqTimers,
                    fatalTimers, stack, mainWindowOpen, now, exited, enqLog,
                    handledLog, overlap >>

NextR == \E type \in AlarmTypes, u \in BOOLEAN : rescheduleAlarmCall(type, u)

SpecR == InitR /\ [][NextR]_vars

---------------------------------------------------------------------------
(* Properties of rescheduleAlarm (SpecR) *)

\* rescheduleAlarm has just run for a reminder or a deferral
RescheduledExtra ==
    /\ lastCall.op = "rescheduleAlarm"
    /\ lastCall.type \in {REMINDER_ALARM, DEFERRED_ALARM}

\* C32: rescheduleAlarm for a reminder or a deferral removes that alarm and
\* changes nothing else of the event: the recurrence is not advanced and the
\* main alarm and its time stay; the event is persisted so
C32_ExtraAlarmRemoved ==
    RescheduledExtra =>
        /\ lastCall.result = [lastCall.event EXCEPT !.alarms = @ \ {lastCall.type}]
        /\ lastCall.result.dt = lastCall.event.dt
        /\ lastCall.trace = << Op("update", lastCall.id, "", lastCall.result.alarms) >>
        /\ calendar[lastCall.id] = [lastCall.result EXCEPT !.updated = FALSE]
        /\ archived = lastCall.before.arch

\* the reminder of a recurring event whose main alarm is overdue was removed
\* and the main alarm stayed where it was
C32_Witness ==
    /\ RescheduledExtra
    /\ lastCall.type = REMINDER_ALARM
    /\ recurs(lastCall.event)
    /\ lastCall.event.dt[MAIN_ALARM] < now
    /\ ~lastCall.updateCalAndDisplay
    /\ calendar[lastCall.id].alarms = lastCall.event.alarms \ {REMINDER_ALARM}
    /\ calendar[lastCall.id].dt[MAIN_ALARM] = lastCall.event.dt[MAIN_ALARM]

\* rescheduleAlarm has just run for a main alarm that is due and has no simple
\* repetition pending
RescheduledMainDue ==
    /\ lastCall.op = "rescheduleAlarm"
    /\ lastCall.type = MAIN_ALARM
    /\ ~(lastCall.event.repeatCount # 0 /\ mainEndRepeatTime(lastCall.event) > now)
    /\ lastCall.event.dt[MAIN_ALARM] <= now

\* the next occurrence of the event rescheduleAlarm was called for
NextOccurrenceOf(call) == setNextOccurrence(call.event, now)

NoOccurrenceLeft == NextOccurrenceOf(lastCall).type = NO_OCCURRENCE

HadDeferral == DEFERRED_ALARM \in lastCall.event.alarms

\* the event was persisted with the alarms rescheduleAlarm left it
PersistedAsLeft ==
    /\ lastCall.trace # << >>
    /\ lastCall.trace[Len(lastCall.trace)]
         = Op("update", lastCall.id, "", lastCall.result.alarms)
    /\ calendar[lastCall.id] # NoEvent
    /\ calendar[lastCall.id].alarms = lastCall.result.alarms
    /\ calendar[lastCall.id].dt = lastCall.result.dt

\* nothing was persisted: the event is only flagged as updated
OnlyFlagged ==
    /\ lastCall.trace = << >>
    /\ calendar = lastCall.before.cal
    /\ lastCall.result.updated

\* the main alarm is at the next occurrence
Advanced ==
    /\ MAIN_ALARM \in lastCall.result.alarms
    /\ lastCall.result.dt[MAIN_ALARM] = NextOccurrenceOf(lastCall).event.dt[MAIN_ALARM]
    /\ lastCall.result.dt[MAIN_ALARM] > now

\* the main alarm was cancelled, and the event deleted if it had no other
\* alarm
MainCancelled ==
    /\ MAIN_ALARM \notin lastCall.result.alarms
    /\ lastCall.event.alarms = {MAIN_ALARM} =>
          /\ calendar[lastCall.id] = NoEvent
          /\ "delete" \in TraceOps(lastCall.trace)

\* C33 as stated: with no occurrence left the main alarm is cancelled; with a
\* next occurrence the event is advanced, and persisted at once if
\* updateCalAndDisplay and otherwise only flagged as updated; a deferred
\* alarm is removed in either case
C33_AdvanceOrCancel ==
    RescheduledMainDue =>
        /\ DEFERRED_ALARM \notin lastCall.result.alarms
        /\ IF NoOccurrenceLeft THEN MainCancelled
           ELSE /\ Advanced
                /\ IF lastCall.updateCalAndDisplay THEN PersistedAsLeft ELSE OnlyFlagged

\* C33 amended: as stated, except that an event which had a deferred alarm
\* is persisted at once whatever updateCalAndDisplay is, without the deferred
\* alarm (and, with no occurrence left, without the main alarm)
C33_AdvanceOrCancelPersistingDeferral ==
    RescheduledMainDue =>
        /\ DEFERRED_ALARM \notin lastCall.result.alarms
        /\ HadDeferral => PersistedAsLeft
        /\ IF NoOccurrenceLeft THEN MainCancelled
           ELSE /\ Advanced
                /\ IF lastCall.updateCalAndDisplay \/ HadDeferral
                   THEN PersistedAsLeft
                   ELSE OnlyFlagged

\* a recurring event with a deferral was advanced with updateCalAndDisplay
\* false, and persisted without the deferral
C33_Witness ==
    /\ RescheduledMainDue /\ ~NoOccurrenceLeft /\ HadDeferral
    /\ ~lastCall.updateCalAndDisplay
    /\ Advanced /\ PersistedAsLeft
    /\ calendar[lastCall.id].dt[MAIN_ALARM] > lastCall.event.dt[MAIN_ALARM]

\* an event without a deferral was advanced and only flagged as updated
C33_WitnessFlagged ==
    /\ RescheduledMainDue /\ ~NoOccurrenceLeft /\ ~HadDeferral
    /\ ~lastCall.updateCalAndDisplay
    /\ Advanced /\ OnlyFlagged

\* the last alarm of an event with no occurrence left was cancelled and the
\* event deleted
C33_WitnessDeleted ==
    /\ RescheduledMainDue /\ NoOccurrenceLeft
    /\ lastCall.event.alarms = {MAIN_ALARM}
    /\ calendar[lastCall.id] = NoEvent

---------------------------------------------------------------------------
(* handleEvent for date-only alarms: one command line, at noon or once the  *)
(* clock has reached the start or the end of one of the following days      *)

\* an event with a date-only main alarm: its first occurrence is on day
\* first, which is where the calendar has its main alarm, and it recurs
\* daily count times
DateEvent(first, count, lc, en, pre) ==
    [MkEvent("e1", "MESSAGE", en, TRUE, 0, lc, None, None, None, "none", 0, pre)
       EXCEPT !.dateOnly = TRUE,
              !.dt = [@ EXCEPT ![MAIN_ALARM] = startOfDate(first)],
              !.startDT = startOfDate(first),
              !.recurPeriod = IF count = 1 THEN 0 ELSE SecsPerDay,
              !.recurCount = count]

DateEvents ==
    { DateEvent(first, count, lc, en, pre) :
        first \in 8 .. 10, count \in 1 .. 3, lc \in {1, 1439, 1440, 2880},
        en \in BOOLEAN, pre \in BOOLEAN }

\* the times the clock is read at
ClockTimes ==
    { Now0 } \cup { startOfDate(d) - 1 : d \in 11 .. 13 }
             \cup { startOfDate(d) : d \in 11 .. 13 }

InitD ==
    /\ InitEngine
    /\ mTrayWindow = FALSE
    /\ mainWindowOpen = FALSE
    /\ \E e \in DateEvents : calendar = [i \in EventIds |-> IF i = "e1" THEN e ELSE NoEvent]
    /\ lastCall = NoCall

\* time passes before the command line arrives
clockAdvances ==
    /\ invocations = 0
    /\ now = Now0
    /\ now' \in ClockTimes \ {Now0}
    /\ UNCHANGED << mInitialised, mProcessingQueue, mPendingQuit, mPendingQuitCode,
                    mFatalError, mFatalMessage, mActiveCount, mDcopQueue, mCommandProcesses,
                    mTrayWindow, pqTimers, fatalTimers, stack, calendar, archived,
                    wins, mainWindowOpen, files, logs, exited, invocations, enqLog,
                    handledLog, overlap, lastCall >>

NextD == NextH \/ clockAdvances

SpecD == InitD /\ [][NextD]_vars

---------------------------------------------------------------------------
(* Properties of date-only alarms (SpecD) *)

\* handleEvent (HANDLE or TRIGGER) was called for an event whose date-only
\* main alarm is due and has a late-cancel threshold
DateOnlyDue ==
    /\ ScanCalled
    /\ EventBefore.dateOnly
    /\ EventBefore.lateCancel > 0
    /\ MAIN_ALARM \in EventBefore.alarms
    /\ EventBefore.dt[MAIN_ALARM] <= now

\* the start of the day that is floor(L / 1440) + 1 days after the day of t
GraceEnd(t) ==
    ((t \div SecsPerDay) + (EventBefore.lateCancel \div 1440) + 1) * SecsPerDay

\* now is at or after that limit for the alarm and for the most recent
\* occurrence of the event
DateTooLate ==
    /\ now >= GraceEnd(EventBefore.dt[MAIN_ALARM])
    /\ now >= GraceEnd(previousOccurrence(EventBefore, now).dt)

\* C34: a due date-only alarm with late-cancel threshold L > 0 is too late
\* exactly when now is at or after the start of the day floor(L / 1440) + 1
\* days after the date of the alarm and of its most recent occurrence: then
\* it is not selected for execution but cancelled or rescheduled; before
\* that limit the first thing done is to execute it as the alarm selected
C34_DateOnlyLateLimit ==
    DateOnlyDue =>
        IF DateTooLate
        THEN /\ ~ExecutedAlarm(MAIN_ALARM, TRUE)
             /\ \/ calendar[lastCall.id] = NoEvent
                \/ MAIN_ALARM \notin calendar[lastCall.id].alarms
                \/ calendar[lastCall.id].dt[MAIN_ALARM] > now
                \/ calendar[lastCall.id].dt[MAIN_ALARM] > EventBefore.dt[MAIN_ALARM]
        ELSE MainExecutedFirst

\* at the very start of the day after the days of grace the only occurrence
\* of an event was cancelled
C34_Witness ==
    /\ DateOnlyDue /\ DateTooLate
    /\ now = GraceEnd(EventBefore.dt[MAIN_ALARM])
    /\ ~recurs(EventBefore)
    /\ EventBefore.lateCancel = 1440
    /\ calendar[lastCall.id] = NoEvent
    /\ ExecCount(lastCall.trace) = 0

\* one second earlier it was executed
C34_WitnessInTime ==
    /\ DateOnlyDue /\ ~DateTooLate
    /\ now = GraceEnd(EventBefore.dt[MAIN_ALARM]) - 1
    /\ EventBefore.lateCancel = 1440
    /\ MainExecutedFirst

\* the date of the alarm is too far past, that of the most recent occurrence
\* is not: the alarm was executed
C34_WitnessRecentOccurrence ==
    /\ DateOnlyDue /\ ~DateTooLate
    /\ now >= GraceEnd(EventBefore.dt[MAIN_ALARM])
    /\ MainExecutedFirst

---------------------------------------------------------------------------
(* Logging sub-processes (SpecC) *)

\* the logging sub-processes of the tracked commands
TrackedLogs ==
    { mCommandProcesses[i].logProcess : i \in 1 .. Len(mCommandProcesses) } \ {NoProc}

\* C35: a logging sub-process that has not been told to terminate belongs to
\* a tracked command: when a command's record is discarded, on completion
\* and on a launch that fails, its logging sub-process has been told to
\* terminate
C35_NoLogWithoutRecord == logs \subseteq TrackedLogs


---------------------------------------------------------------------------
(* scheduleEvent on its own (SpecS): new alarms are scheduled before and   *)
(* after the engine is initialised, and the queue is drained               *)

\* the events scheduleEvent is called for: in the future, in the current
\* minute, just past and long past, with and without late-cancel
ScheduledEvents ==
    { MkEvent("e2", "MESSAGE", TRUE, FALSE, late, lc, None, None, None, rec, 0, FALSE) :
        late \in {-600, -30, 600}, lc \in {0, 5}, rec \in {"none", "more"} }
      \cup { MkEvent("e2", "MESSAGE", TRUE, FALSE, 30, 0, None, None, None, "last", 0, FALSE),
              MkEvent("e2", "COMMAND", TRUE, FALSE, 30, 0, None, None, None, "none", 0, FALSE) }

NextS ==
    \/ SetUpDcop
    \/ \E e \in ScheduledEvents : scheduleEvent(e)
    \/ ProcessQueue
    \/ DrainHandle
    \/ DrainDequeue
    \/ DrainFinish
    \/ \E i \in 1 .. MaxProcs, ne \in BOOLEAN : slotCommandExited(i, ne)

\* the engine as constructed, with nothing stored in the calendar
InitS ==
    /\ InitEngine
    /\ mTrayWindow = FALSE
    /\ mainWindowOpen = FALSE
    /\ calendar = [i \in EventIds |-> NoEvent]
    /\ lastCall = NoCall

SpecS == InitS /\ [][NextS]_vars

---------------------------------------------------------------------------
(* Properties of scheduleEvent (SpecS) *)

\* the time of the new event, rounded down to the minute, is not after now
DueNew(e0) == roundToMinute(e0.dt[MAIN_ALARM]) <= now

\* late-cancel is set and the time given is further back than it allows
TooLateNew(e0) ==
    e0.lateCancel # 0 /\ e0.dt[MAIN_ALARM] < now - maxLateness(e0.lateCancel)

\* the event recurs and has an occurrence after now
HasLaterOccurrence(e0) ==
    /\ recurs(e0)
    /\ \E k \in 0 .. (e0.recurCount - 1) :
          roundToMinute(e0.startDT) + k * e0.recurPeriod > now

\* the entries the step appends to the action queue
NewEntries == SubSeq(mDcopQueue', Len(mDcopQueue) + 1, Len(mDcopQueue'))

\* the positions of the entries of a function among those of a new event
EntriesOf(q, function) ==
    {i \in 1 .. Len(q) : q[i].eventId = "" /\ q[i].function = function}

\* the handler of the step executes the alarm once and stores nothing
ExecutedOnceUnstored ==
    /\ ExecCount(lastCall'.trace) = 1
    /\ \A i \in 1 .. Len(lastCall'.trace) : lastCall'.trace[i].op \notin CalOps
    /\ calendar' = calendar

\* what scheduleEvent does for a new event that is due
DueScheduled(e0) ==
    /\ IF mInitialised
       THEN ExecutedOnceUnstored /\ EntriesOf(NewEntries, EVENT_TRIGGER) = {}
       ELSE /\ ExecCount(lastCall'.trace) = 0
            /\ calendar' = calendar
            /\ EntriesOf(NewEntries, EVENT_TRIGGER) = {1}
            /\ NewEntries[1].event.id = e0.id
    /\ EntriesOf(NewEntries, EVENT_HANDLE)
         = IF HasLaterOccurrence(e0) THEN {Len(NewEntries)} ELSE {}
    /\ \A i \in EntriesOf(NewEntries, EVENT_HANDLE) :
          /\ NewEntries[i].event.id = e0.id
          /\ NewEntries[i].event.dt[MAIN_ALARM] > now
          /\ \A j \in EntriesOf(NewEntries, EVENT_TRIGGER) : j < i

\* a queued TRIGGER entry of a new event is handled: the alarm is executed
\* once, nothing is stored, and the entry had not been handled before
TriggerEntryHandled ==
    (/\ DrainHandle
     /\ Head(mDcopQueue).eventId = ""
     /\ Head(mDcopQueue).function = EVENT_TRIGGER)
       => /\ ExecutedOnceUnstored
          /\ \A i \in 1 .. Len(handledLog) : handledLog[i] # Head(mDcopQueue).stamp

\* C36: scheduleEvent for a new event whose (minute-rounded) time is at or
\* before now executes it exactly once without first storing it, immediately
\* when the engine is initialised and otherwise through a queued TRIGGER
\* entry; the insertion entry is queued only if the event recurs and has a
\* later occurrence, and after the TRIGGER entry
C36_DueExecutedOnce ==
    [][ /\ \A e0 \in ScheduledEvents :
              (scheduleEvent(e0) /\ DueNew(e0)) => DueScheduled(e0)
        /\ TriggerEntryHandled ]_vars

\* C36 (amended): the same, unless late-cancel is set and the time given is
\* more than maxLateness(lateCancel) seconds before now: then scheduleEvent
\* does nothing, the event is neither executed nor queued
C36_DueExecutedOnceUnlessTooLate ==
    [][ /\ \A e0 \in ScheduledEvents :
              (scheduleEvent(e0) /\ DueNew(e0)) =>
                  IF TooLateNew(e0)
                  THEN /\ lastCall'.trace = << >>
                       /\ NewEntries = << >>
                       /\ calendar' = calendar
                  ELSE DueScheduled(e0)
        /\ TriggerEntryHandled ]_vars

\* a due recurring event was scheduled before initialisation: its TRIGGER
\* entry and then its insertion entry are queued; the TRIGGER entry has been
\* handled and the alarm executed
C36_Witness ==
    /\ lastCall.op = "newEntry" /\ lastCall.function = EVENT_TRIGGER
    /\ ExecCount(lastCall.trace) = 1
    /\ Len(mDcopQueue) = 2
    /\ mDcopQueue[2].eventId = "" /\ mDcopQueue[2].function = EVENT_HANDLE

\* a due event was executed at once by scheduleEvent, the engine initialised
C36_WitnessImmediate ==
    /\ lastCall.op = "scheduleEvent" /\ mInitialised
    /\ ExecCount(lastCall.trace) = 1
    /\ mDcopQueue = << >>

\* an event scheduled too late was dropped
C36_WitnessTooLate ==
    /\ lastCall.op = "scheduleEvent" /\ lastCall.trace = << >>
    /\ mInitialised /\ enqLog = << >>


---------------------------------------------------------------------------
(* The drain of the queue goes on (SpecLive): the timers that call         *)
(* processQueue fire, the handlers return from their nested event loops,   *)
(* the commands started end                                                *)

\* the while loop of a drain stands at an entry to handle
HandleDue ==
    /\ exited = NotExited
    /\ stack # << >> /\ Top.kind = "pqLoop"
    /\ mDcopQueue # << >>

\* weak fairness of DrainHandle (the loop goes on to handle its entry) and of
\* the completion of commands, with their enabling conditions written out
SpecLive ==
    /\ Spec
    /\ WF_vars(ProcessQueue)
    /\ WF_vars(DrainDequeue)
    /\ WF_vars(DrainFinish)
    /\ WF_vars(newInstanceEnd)
    /\ ([]<>(~HandleDue) \/ []<><<Len(handledLog') > Len(handledLog)>>_vars)
    /\ ([]<>(mCommandProcesses = << >> \/ exited # NotExited)
          \/ []<><<lastCall'.op = "slotCommandExited">>_vars)

\* the entry with this stamp is in the action queue and its handling has not
\* begun
Waiting(s) ==
    /\ \E i \in 1 .. Len(mDcopQueue) : mDcopQueue[i].stamp = s
    /\ \A i \in 1 .. Len(handledLog) : handledLog[i] # s

\* the handling of the entry with this stamp has begun
Handled(s) == \E i \in 1 .. Len(handledLog) : handledLog[i] = s

---------------------------------------------------------------------------
(* The notifier after a HANDLE invocation (SpecH) *)

\* the operations that tell the notifier of the event, or show it
InformOps == {"ack", "update", "delete", "show"}

\* handleEvent has returned from a HANDLE invocation for a stored event
HandleReturned ==
    /\ HandleEventCalled
    /\ lastCall.function = EVENT_HANDLE
    /\ lastCall.found

\* the pre-display command of an alarm has ended and the alarm was executed
PreActionCompleted ==
    /\ lastCall.op = "slotCommandExited"
    /\ ExecCount(lastCall.trace) > 0

\* C38: every handleEvent invocation with function HANDLE on an existing
\* event leaves the notifier informed: when the invocation, and the
\* pre-display command it launched, have finished, the event has been
\* acknowledged with eventHandled, persisted, deleted or shown in a display
\* window, for enabled and disabled events and for every alarm type
C38_NotifierInformed ==
    /\ HandleReturned =>
          \/ TraceOps(lastCall.trace) \cap InformOps # {}
          \/ PreActionPids(mCommandProcesses, lastCall.id) # {}
    /\ PreActionCompleted => TraceOps(lastCall.trace) \cap InformOps # {}


\* C39: handleEvent never asks the calendar to update an event that the same
\* invocation has already deleted from storage: after a late-cancel has
\* removed the last alarm of the event and deleted it, the step after the
\* scan issues no update for it
C39_NoUpdateAfterDelete ==
    HandleEventCalled =>
        \A i \in 1 .. Len(lastCall.trace), j \in 1 .. Len(lastCall.trace) :
            (/\ i < j
             /\ lastCall.trace[i].op = "delete"
             /\ lastCall.trace[j].id = lastCall.trace[i].id)
               => lastCall.trace[j].op # "update"


---------------------------------------------------------------------------
(* Properties of the fatal-error state (SpecF) *)

\* the error boxes of quitFatal that are open
Boxes(s) == Cardinality({i \in 1 .. Len(s) : s[i].kind = "fatalBox"})

\* the step is a call of quitFatal, by its timer or from newInstance
QuitFatalCalled == quitFatal \/ newInstanceFatal

\* the step makes the forced quit: the main windows and the tray icon are
\* closed, and the process exits with code 1 unless an alarm window is open
ForcedQuitTried ==
    /\ ~mainWindowOpen' /\ ~mTrayWindow'
    /\ exited' = IF wins = {} THEN 1 ELSE exited

\* C40: the fatal-error state only moves forward, 0 to 1 to 2 to 3: the first
\* fatal message is kept and later displayFatalError calls are ignored, the
\* error box is shown at most once (on the step from 1 to 2 only), quitFatal
\* called while the box is open does nothing, and once the box is
\* acknowledged every quitFatal call makes the forced quit and leaves a timer
\* for the next call, so that the attempt is repeated until the process exits
C40_FatalStateForward ==
    /\ [][ /\ mFatalError' \in {mFatalError, mFatalError + 1}
           /\ mFatalError # 0 => mFatalMessage' = mFatalMessage
           /\ Boxes(stack') > Boxes(stack) => (mFatalError = 1 /\ mFatalError' = 2)
           /\ (QuitFatalCalled /\ mFatalError = 2) =>
                 UNCHANGED << mInitialised, mProcessingQueue, mPendingQuit,
                              mPendingQuitCode, mFatalError, mFatalMessage, mActiveCount,
                              mDcopQueue, mCommandProcesses, mTrayWindow, pqTimers, stack,
                              calendar, archived, wins, mainWindowOpen, files, logs, now,
                              exited, enqLog, handledLog, overlap, lastCall >>
           /\ (QuitFatalCalled /\ mFatalError = 3) =>
                 (ForcedQuitTried /\ mFatalError' = 3 /\ fatalTimers' >= 1) ]_vars
    /\ [](mFatalError \in 0 .. 3)
    /\ [](Boxes(stack) = IF mFatalError = 2 THEN 1 ELSE 0)
    /\ []((mFatalError = 3 /\ exited = NotExited) => fatalTimers >= 1)

\* the box has been acknowledged, the forced quit was made and an open alarm
\* window kept the process running: the next attempt is scheduled
C40_Witness ==
    /\ mFatalError = 3 /\ mFatalMessage \in FatalMessages
    /\ exited = NotExited /\ wins # {}
    /\ fatalTimers >= 1
    /\ lastCall.via = "quitFatal"

\* the forced quit of quitFatal has ended the process
C40_WitnessExit ==
    /\ mFatalError = 3 /\ exited = 1
    /\ lastCall.via = "quitFatal"

\* quitFatal has been called while the box was open: newInstance opened the
\* box and the timer of displayFatalError fired then, or the timer opened it
\* and a command line arrived
C40_WitnessBoxOpen ==
    /\ mFatalError = 2 /\ Boxes(stack) = 1
    /\ invocations = 1 /\ fatalTimers = 0
    /\ lastCall.op = "none"

\* two attempts are scheduled: a command line arrived after the box was
\* acknowledged and its quitFatal call left a timer of its own
C40_WitnessRepeated ==
    /\ mFatalError = 3 /\ exited = NotExited
    /\ fatalTimers = 2

=============================================================================
